---------------------------- MODULE Spec2Model ----------------------------
(***************************************************************************)
(* Device_Generator: Euler multigraph, Fleury traversal, topology          *)
(* classifier, pattern library and the layout core, as state machines.     *)
(*                                                                         *)
(* Python lists are modelled as sequences; Python indices are 0-based and  *)
(* are kept 0-based wherever the code passes an index around (the index    *)
(* returned by remove_edge, the position of a list iterator).              *)
(***************************************************************************)
EXTENDS Integers, Sequences, FiniteSets, TLC

(***************************************************************************)
(* Bounds of the model.                                                    *)
(***************************************************************************)
\* edges a multigraph is built from
MaxEdges == 3
\* longest output the restart loop of fleury_algorithm may accumulate
MaxOrder == 22
\* edges of a multigraph of single fingers handed to the traversal
MaxTrail == 4
\* add_edge calls when add_edge, remove_edge and is_bridge are freely interleaved
MaxAdds == 2
\* classes of a count vector, largest count of a class, rows of a 2D pattern
MaxClasses == 3
MaxCount == 4
MaxRow == 3
\* instances of a group, largest finger and largest multiplier of an instance
MaxInst == 2
MaxParam == 3
\* the core: fingers and multipliers, implant enclosures (in grid units),
\* minimum areas (in steps), runs on the same group
MaxCore == 2
MaxEnc == 1
MaxArea == 1
MaxRuns == 2
\* the longest row handed to the layout generator directly
MaxNodes == 3
\* terminal widths handed to the row walk, in grid steps
MaxWidth == 6
\* enclosure of the tap diffusion by the tap implant, in grid steps
MaxTapEnc == 4

\* the diffusion nets a terminal can be connected to, in the order in which a
\* group first uses them (net names matter only by identity)
NetOrder == <<"a", "b", "c", "d">>
Nets == {NetOrder[i] : i \in 1..Len(NetOrder)}

VARIABLES
    graph,        \* EulerGraph.graph: [keys: insertion order, adj: net -> half-edges]
    inserted,     \* the edges handed to add_edge(u, v, e), in call order
    pc,           \* where the program is
    finger,       \* argument of fleury_algorithm
    stack,        \* the active dfs_order calls: [node, it] (it = list iterator position)
    order,        \* the local `order` of fleury_algorithm / `circuit` of dfs_order
    full_order,   \* the local `full_order` of fleury_algorithm
    start_node,   \* the local `start_node` of fleury_algorithm
    first_start,  \* the value the first call of initial_node returned
    last,         \* the last remove_edge / is_bridge call: graph before, argument, result
    pat_inst,     \* the count vector `inst` handed to a pattern function
    pat_row,      \* the `row` handed to simple_2d_clustered_pattern
    pat_called,   \* the pattern function that was called ("none" before a call)
    pat_out,      \* the pattern it returned
    group_inst,       \* group.inst: the instances of the group
    group_constraint, \* group.constraint: [mf_sym, mp_sym, mp_row, tap]
    group_topology,   \* group.topology: [assigned, rows]
    all_finger,       \* all_finger of the last Topo.MOSFET object
    all_multiplier,   \* all_multiplier of the last Topo.MOSFET object
    topo_condition,   \* what get_topology_condition returned to generate_topology
    topo_status,      \* how topology generation ended ("idle" before it ran)
    group_type,       \* group.type: "nmos" or "pmos"
    tech,             \* the rule values the technology holds for the layers of the group
    group_shape,      \* group.shape: layer -> rectangles
    group_pin,        \* group.pin: the pins
    group_boundary,   \* group.boundary
    core_pc,          \* where the core is: topology generation, a step of Layout.MOSFET, the end
    row_pos,          \* the row and the position the row walk of generate_layout is at
    runs,             \* how many times the core has run on the group
    after_first       \* shape, pin and boundary of the group when the first run ended

graphVars == <<graph, inserted, pc, finger, stack, order, full_order, start_node,
               first_start, last>>
patternVars == <<pat_inst, pat_row, pat_called, pat_out>>
topoVars == <<group_inst, group_constraint, group_topology, all_finger, all_multiplier,
              topo_condition, topo_status>>
layoutVars == <<group_type, tech, group_shape, group_pin, group_boundary, core_pc, row_pos,
                runs, after_first>>
vars == <<graphVars, patternVars, topoVars, layoutVars>>

\* what the graph and traversal steps leave alone
NotGraph == <<patternVars, topoVars, layoutVars>>

(***************************************************************************)
(* Sequence helpers (Python list operations).                              *)
(***************************************************************************)
Range(s) == {s[i] : i \in 1..Len(s)}

\* s[::-1]
Reverse(s) == [i \in 1..Len(s) |-> s[Len(s) + 1 - i]]

\* del s[i], i 0-based
DelAt(s, i) == SubSeq(s, 1, i) \o SubSeq(s, i + 2, Len(s))

\* s.insert(i, x), i 0-based and >= 0: an index past the end appends
InsertAt(s, i, x) ==
    LET k == IF i > Len(s) THEN Len(s) ELSE i
    IN  SubSeq(s, 1, k) \o <<x>> \o SubSeq(s, k + 1, Len(s))

Min(a, b) == IF a < b THEN a ELSE b
Max(a, b) == IF a > b THEN a ELSE b

(***************************************************************************)
(* Pattern library (Pattern.py). A count vector `inst` is a sequence;       *)
(* inst[i + 1] is Python's inst[i], and the classes are Python's 0-based    *)
(* indices. `counts` is the dict made by dict(enumerate(inst)).             *)
(***************************************************************************)
\* the token 'd' of a dummy instance (not an index of any instance)
d == -1

\* sum(inst)
RECURSIVE SumSeq(_)
SumSeq(inst) == IF Len(inst) = 0 THEN 0 ELSE inst[1] + SumSeq(Tail(inst))

\* max(inst), inst not empty
RECURSIVE MaxSeq(_)
MaxSeq(inst) ==
    IF Len(inst) = 1 THEN inst[1]
    ELSE LET m == MaxSeq(Tail(inst)) IN IF inst[1] >= m THEN inst[1] ELSE m

\* dict(enumerate(inst))
Enumerate(inst) == [i \in 0..Len(inst) - 1 |-> inst[i + 1]]

\* the keys of dict(enumerate(inst)) in insertion order
Keys(inst) == [i \in 1..Len(inst) |-> i - 1]

\* `for _ in range(k): pattern.append(x)`
RECURSIVE Copies(_, _)
Copies(x, k) == IF k <= 0 THEN <<>> ELSE <<x>> \o Copies(x, k - 1)

\* `for i in counts: for _ in range(counts[i]): pattern.append(i)` from key i on
RECURSIVE ClusterFrom(_, _)
ClusterFrom(inst, i) ==
    IF i > Len(inst) - 1 THEN <<>>
    ELSE Copies(i, inst[i + 1]) \o ClusterFrom(inst, i + 1)

simple_1d_clustered_pattern(inst) == ClusterFrom(inst, 0)

\* `for _ in range(times): if counts[num] > 0: pattern.append(num); counts[num] -= 1`
RECURSIVE EmitWhileLeft(_, _, _)
EmitWhileLeft(st, num, times) ==
    IF times <= 0 THEN st
    ELSE IF st.counts[num] > 0
         THEN EmitWhileLeft([pattern |-> Append(st.pattern, num),
                             counts  |-> [st.counts EXCEPT ![num] = @ - 1]],
                            num, times - 1)
         ELSE EmitWhileLeft(st, num, times - 1)

\* one pass `for i, num in enumerate(counts)` over the keys from position i on
RECURSIVE OnePass(_, _, _, _)
OnePass(st, keys, occur, i) ==
    IF i > Len(keys) THEN st
    ELSE OnePass(EmitWhileLeft(st, keys[i], occur[i]), keys, occur, i + 1)

\* `for _ in range(rounds)` of passes
RECURSIVE Passes(_, _, _, _)
Passes(st, keys, occur, rounds) ==
    IF rounds <= 0 THEN st
    ELSE Passes(OnePass(st, keys, occur, 1), keys, occur, rounds - 1)

Ones(n) == [i \in 1..n |-> 1]

simple_1d_interdigitated_pattern(inst) ==
    Passes([pattern |-> <<>>, counts |-> Enumerate(inst)],
           Keys(inst), Ones(Len(inst)), MaxSeq(inst)).pattern

\* sorted(counts.items(), key=operator.itemgetter(1), reverse=True): the keys
\* by descending count; the sort is stable, equal counts keep their order
RECURSIVE SortedKeys(_, _)
SortedKeys(inst, left) ==
    IF left = {} THEN <<>>
    ELSE LET k == CHOOSE x \in left :
                     \A y \in left : \/ inst[x + 1] > inst[y + 1]
                                     \/ (inst[x + 1] = inst[y + 1] /\ x <= y)
         IN  <<k>> \o SortedKeys(inst, left \ {k})

sorted_1d_interdigitated_pattern(inst) ==
    Passes([pattern |-> <<>>, counts |-> Enumerate(inst)],
           SortedKeys(inst, 0..Len(inst) - 1), Ones(Len(inst)), MaxSeq(inst)).pattern

\* Python 3 round(p / q) for p >= 0, q > 0: to the nearest, halves to even
PyRound(p, q) ==
    LET k == p \div q
        r == p % q
    IN  IF 2 * r < q THEN k
        ELSE IF 2 * r > q THEN k + 1
        ELSE IF k % 2 = 0 THEN k ELSE k + 1

\* occur: round(prev / counts[num]) for every key but the first, then 1
Occur(inst, keys) ==
    [i \in 1..Len(keys) |->
        IF i < Len(keys) THEN PyRound(inst[keys[i] + 1], inst[keys[i + 1] + 1]) ELSE 1]

balanced_1d_interdigitated_pattern(inst) ==
    LET keys == SortedKeys(inst, 0..Len(inst) - 1)
    IN  Passes([pattern |-> <<>>, counts |-> Enumerate(inst)],
               keys, Occur(inst, keys), MaxSeq(inst)).pattern

\* the keys with an odd count, in order (odd_counts), from key i on
RECURSIVE OddKeys(_, _)
OddKeys(inst, i) ==
    IF i > Len(inst) - 1 THEN <<>>
    ELSE (IF inst[i + 1] % 2 # 0 THEN <<i>> ELSE <<>>) \o OddKeys(inst, i + 1)

\* counts after `counts[i] -= 1` for every odd count
EvenCounts(inst) == [i \in 1..Len(inst) |-> IF inst[i] % 2 # 0 THEN inst[i] - 1 ELSE inst[i]]

\* tokens dealt alternately to left_pattern and right_pattern, starting left
RECURSIVE Deal(_, _, _)
Deal(st, tokens, post) ==
    IF Len(tokens) = 0 THEN st
    ELSE IF post = "left"
         THEN Deal([st EXCEPT !.left = Append(@, tokens[1])], Tail(tokens), "right")
         ELSE Deal([st EXCEPT !.right = Append(@, tokens[1])], Tail(tokens), "left")

\* variant: the odd pool is dealt before the even tokens
simple_1d_common_centroid_pattern_odd_first(inst) ==
    LET odd == Deal([left |-> <<>>, right |-> <<>>], OddKeys(inst, 0), "left")
        all == Deal(odd, ClusterFrom(EvenCounts(inst), 0),
                    IF Len(OddKeys(inst, 0)) % 2 = 0 THEN "left" ELSE "right")
    IN  all.left \o Reverse(all.right)

simple_1d_common_centroid_pattern(inst) ==
    LET even == Deal([left |-> <<>>, right |-> <<>>],
                     ClusterFrom(EvenCounts(inst), 0), "left")
        all  == Deal(even, OddKeys(inst, 0), "left")
    IN  all.left \o Reverse(all.right)

\* `for _ in range(row): tmp = [pattern_1d.pop(0) for _ in range(col)]`
RECURSIVE Rows(_, _, _)
Rows(pattern_1d, row, col) ==
    IF row <= 0 THEN <<>>
    ELSE <<SubSeq(pattern_1d, 1, col)>> \o
         Rows(SubSeq(pattern_1d, col + 1, Len(pattern_1d)), row - 1, col)

\* variant: a full row of dummies is added when sum(inst) is a multiple of row
simple_2d_clustered_pattern_padded(inst, row) ==
    LET total      == SumSeq(inst)
        dummy      == row - (total % row)
        pattern_1d == ClusterFrom(inst, 0) \o Copies(d, dummy)
        col        == IF dummy > 0 THEN total \div row + 1 ELSE total \div row
    IN  Rows(pattern_1d, row, col)

\* variant: the flat sequence is dealt to the rows column by column
simple_2d_clustered_pattern_by_column(inst, row) ==
    LET total      == SumSeq(inst)
        dummy      == IF total % row # 0 THEN row - (total % row) ELSE 0
        pattern_1d == ClusterFrom(inst, 0) \o Copies(d, dummy)
        col        == IF dummy > 0 THEN total \div row + 1 ELSE total \div row
    IN  [r \in 1..row |-> [c \in 1..col |-> pattern_1d[(c - 1) * row + r]]]

simple_2d_clustered_pattern(inst, row) ==
    LET total      == SumSeq(inst)
        dummy      == IF total % row # 0 THEN row - (total % row) ELSE 0
        pattern_1d == ClusterFrom(inst, 0) \o Copies(d, dummy)
        col        == IF dummy > 0 THEN total \div row + 1 ELSE total \div row
    IN  Rows(pattern_1d, row, col)

(***************************************************************************)
(* Terminal records (MOSFET_Node). Python compares them by identity, so a  *)
(* record carries the identity `id` of the object.                         *)
(***************************************************************************)
MOSFET_Node(type, net, length, width, id) ==
    [type |-> type, net |-> net, length |-> length, width |-> width, id |-> id]

NoNode == MOSFET_Node("none", "", 0, 0, <<0, "">>)

\* the value of a local that was never bound (reading it raises UnboundLocalError)
Unbound == -2

(***************************************************************************)
(* EulerEdge and EulerGraph.                                               *)
(***************************************************************************)
EulerEdge(u, v, e) == [u |-> u, v |-> v, e |-> e]

EmptyGraph == [keys |-> <<>>, adj |-> [n \in Nets |-> <<>>]]

\* defaultdict access self.graph[n]: a missing key is created, at the end
Touch(g, n) ==
    IF n \in Range(g.keys) THEN g ELSE [g EXCEPT !.keys = Append(@, n)]

\* add_edge storing the interior unreversed on the v side
add_edge_unreversed(g, u, v, e, index) ==
    IF index = -1
    THEN LET g1 == [Touch(g, u.net) EXCEPT !.adj[u.net] = Append(@, EulerEdge(u, v, e))]
         IN  [Touch(g1, v.net) EXCEPT !.adj[v.net] = Append(@, EulerEdge(v, u, e))]
    ELSE LET g1 == [Touch(g, u.net) EXCEPT
                        !.adj[u.net] = InsertAt(@, index, EulerEdge(u, v, e))]
         IN  [Touch(g1, v.net) EXCEPT
                        !.adj[v.net] = InsertAt(@, index, EulerEdge(v, u, e))]

add_edge(g, u, v, e, index) ==
    IF index = -1
    THEN LET g1 == [Touch(g, u.net) EXCEPT !.adj[u.net] = Append(@, EulerEdge(u, v, e))]
         IN  [Touch(g1, v.net) EXCEPT !.adj[v.net] = Append(@, EulerEdge(v, u, Reverse(e)))]
    ELSE LET g1 == [Touch(g, u.net) EXCEPT
                        !.adj[u.net] = InsertAt(@, index, EulerEdge(u, v, e))]
         IN  [Touch(g1, v.net) EXCEPT
                        !.adj[v.net] = InsertAt(@, index, EulerEdge(v, u, Reverse(e)))]

\* first loop of remove_edge: the 0-based position of the first half-edge of
\* lst (stored under u) whose adjacent net is v and whose interior is e; -1 if none
RECURSIVE FindU(_, _, _, _, _)
FindU(lst, u, v, e, i) ==
    IF i >= Len(lst) THEN -1
    ELSE LET edge == lst[i + 1]
             adj  == IF edge.u.net = u THEN edge.v.net ELSE edge.u.net
         IN  IF adj = v /\ edge.e = e THEN i ELSE FindU(lst, u, v, e, i + 1)

\* second loop of remove_edge, over the list stored under v
RECURSIVE FindV(_, _, _, _, _)
FindV(lst, u, v, e, i) ==
    IF i >= Len(lst) THEN -1
    ELSE LET edge == lst[i + 1]
             adj  == IF edge.v.net = v THEN edge.u.net ELSE edge.v.net
         IN  IF adj = u /\ Reverse(edge.e) = e THEN i ELSE FindV(lst, u, v, e, i + 1)

\* the value the loop variable i holds after `for i, edge in enumerate(lst)`
\* that broke at `found` (or ran to the end when found = -1); `before` is what
\* i held when the loop started
LoopVar(lst, found, before) ==
    IF found >= 0 THEN found
    ELSE IF Len(lst) > 0 THEN Len(lst) - 1 ELSE before

\* remove_edge(u, v, e): the graph afterwards and the returned i
remove_edge(g, u, v, e) ==
    LET g0 == Touch(g, u)
        fu == FindU(g0.adj[u], u, v, e, 0)
        i1 == LoopVar(g0.adj[u], fu, Unbound)
        g1 == IF fu >= 0 THEN [g0 EXCEPT !.adj[u] = DelAt(@, fu)] ELSE g0
        g2 == Touch(g1, v)
        fv == FindV(g2.adj[v], u, v, e, 0)
        i2 == LoopVar(g2.adj[v], fv, i1)
        g3 == IF fv >= 0 THEN [g2 EXCEPT !.adj[v] = DelAt(@, fv)] ELSE g2
    IN  [graph |-> g3, i |-> i2]

(***************************************************************************)
(* Fleury_Algorithm.                                                       *)
(***************************************************************************)
\* the position of the first net, in table order from position i (1-based),
\* whose half-edge list has odd length; 0 if there is none
RECURSIVE FirstOdd(_, _)
FirstOdd(g, i) ==
    IF i > Len(g.keys) THEN 0
    ELSE IF Len(g.adj[g.keys[i]]) % 2 = 1 THEN i ELSE FirstOdd(g, i + 1)

\* initial_node that always starts on the first net of the table
initial_node_first(g) ==
    IF Len(g.keys) = 0 \/ Len(g.adj[g.keys[1]]) = 0 THEN [ok |-> FALSE, node |-> NoNode]
    ELSE [ok |-> TRUE, node |-> g.adj[g.keys[1]][1].u]

\* initial_node(): [ok, node]; ok = FALSE when list(keys)[0] or graph[node][0]
\* raises IndexError
initial_node(g) ==
    LET k == FirstOdd(g, 1)
    IN  IF k = 0 /\ Len(g.keys) = 0 THEN [ok |-> FALSE, node |-> NoNode]
        ELSE LET node == IF k > 0 THEN g.keys[k] ELSE g.keys[1]
             IN  IF Len(g.adj[node]) = 0 THEN [ok |-> FALSE, node |-> NoNode]
                 ELSE LET first == g.adj[node][1]
                      IN  [ok   |-> TRUE,
                           node |-> IF first.u.net = node THEN first.u ELSE first.v]

\* dfs_visit(from_node, visited): the visited list afterwards
RECURSIVE dfs_visit(_, _, _), dfs_visit_loop(_, _, _, _)
dfs_visit(g, from_node, visited) ==
    dfs_visit_loop(g, from_node, Append(visited, from_node), 1)
dfs_visit_loop(g, from_node, visited, i) ==
    IF i > Len(g.adj[from_node]) THEN visited
    ELSE LET edge    == g.adj[from_node][i]
             to_node == IF edge.u.net = from_node THEN edge.v.net ELSE edge.u.net
         IN  IF to_node \in Range(visited)
             THEN dfs_visit_loop(g, from_node, visited, i + 1)
             ELSE dfs_visit_loop(g, from_node, dfs_visit(g, to_node, visited), i + 1)

\* an is_bridge that searches the graph with the edge still in it
is_bridge_unremoved(g, edge) ==
    [graph |-> g, bridge |-> ~(edge.v.net \in Range(dfs_visit(g, edge.u.net, <<>>)))]

\* is_bridge(edge): the graph afterwards and the answer
is_bridge(g, edge) ==
    LET from_node == edge.u.net
        to_node   == edge.v.net
        removed   == remove_edge(g, from_node, to_node, edge.e)
        visited   == dfs_visit(removed.graph, from_node, <<>>)
        restored  == add_edge(removed.graph, edge.u, edge.v, edge.e, removed.i)
    IN  [graph |-> restored, bridge |-> ~(to_node \in Range(visited))]

\* a contribution that ends on the near terminal of the edge
Contribution_near(edge, from_node, fing) ==
    LET fr_node == IF edge.u.net = from_node THEN edge.u ELSE edge.v
    IN  IF fing THEN edge.e \o <<fr_node>> ELSE <<fr_node>> \o edge.e \o <<fr_node>>

\* what dfs_order appends to the circuit for a taken edge
Contribution(edge, from_node, fing) ==
    LET to_node == IF edge.u.net = from_node THEN edge.v ELSE edge.u
        fr_node == IF edge.u.net = from_node THEN edge.u ELSE edge.v
    IN  IF fing THEN edge.e \o <<to_node>> ELSE <<fr_node>> \o edge.e \o <<to_node>>

\* one iteration of `for edge in self.graph.graph[from_node]` in the dfs_order
\* call with iterator position `it` (0-based) over the live list: what happens
\* to the graph, and whether the edge is taken (the call then recurses)
dfs_order_iteration(g, from_node, it) ==
    LET edge    == g.adj[from_node][it + 1]
        to_node == IF edge.u.net = from_node THEN edge.v ELSE edge.u
    IN  IF Len(g.adj[from_node]) = 1
        THEN [take  |-> TRUE,
              edge  |-> edge,
              graph |-> remove_edge(g, from_node, to_node.net, edge.e).graph]
        ELSE LET b == is_bridge(g, edge)
             IN  IF ~b.bridge
                 THEN [take  |-> TRUE,
                       edge  |-> edge,
                       graph |-> remove_edge(b.graph, from_node, to_node.net, edge.e).graph]
                 ELSE [take |-> FALSE, edge |-> edge, graph |-> b.graph]

\* the check at the end of the while loop of fleury_algorithm
unconnected(g) == \E i \in 1..Len(g.keys) : Len(g.adj[g.keys[i]]) > 0

(***************************************************************************)
(* fleury_algorithm as a function of the graph it is handed: the run of    *)
(* the while loop and of the recursive dfs_order calls from start to end.  *)
(***************************************************************************)
\* The result of a call is bound once, as the only element of a set, and
\* then used; TheOne(S) is the element of a one-element set.
TheOne(S) == CHOOSE x \in S : TRUE

\* dfs_order(from_node, circuit, finger), its for loop standing at position `it`:
\* the graph and the circuit when the call returns
RECURSIVE dfs_order(_, _, _, _, _)
dfs_order(g, from_node, circuit, fing, it) ==
    IF it >= Len(g.adj[from_node]) THEN [graph |-> g, circuit |-> circuit]
    ELSE TheOne({
           IF r.take
           THEN LET to_node == IF r.edge.u.net = from_node THEN r.edge.v ELSE r.edge.u
                IN  TheOne({dfs_order(sub.graph, from_node, sub.circuit, fing, it + 1) :
                            sub \in {dfs_order(r.graph, to_node.net,
                                               circuit \o Contribution(r.edge, from_node, fing),
                                               fing, 0)}})
           ELSE dfs_order(r.graph, from_node, circuit, fing, it + 1) :
           r \in {dfs_order_iteration(g, from_node, it)}})

\* the while loop of fleury_algorithm from a loop head with graph g; `seen` are
\* the graphs of the earlier loop heads: the loop head depends on the graph
\* alone, so a graph seen again means the loop never ends
RECURSIVE fleury_loop(_, _, _, _)
fleury_loop(g, fing, full, seen) ==
    IF g \in seen THEN [status |-> "loops", full_order |-> full]
    ELSE TheOne({
           IF ~r.ok THEN [status |-> "raised", full_order |-> full]
           ELSE TheOne({
                  IF unconnected(o.graph)
                  THEN fleury_loop(o.graph, fing, full \o o.circuit, seen \cup {g})
                  ELSE [status |-> "returned", full_order |-> full \o o.circuit] :
                  o \in {dfs_order(g, r.node.net, IF fing THEN <<r.node>> ELSE <<>>, fing, 0)}}) :
           r \in {initial_node(g)}})

fleury_algorithm(g, fing) == fleury_loop(g, fing, <<>>, {})

(***************************************************************************)
(* Topology builder (Topo.py). Strings the code parses are sequences of    *)
(* characters. An instance is [finger, multiplier, source, gate, drain,    *)
(* length, width]; group.inst[i] of the code is inst[i + 1].               *)
(***************************************************************************)
\* the implicit return value of a function that falls off its end
None == -3

Str_None == <<"N", "o", "n", "e">>
Str_ID == <<"I", "D">>
Str_CC == <<"C", "C">>

\* the orders in which `for i in set(...)` can visit the elements of S
SetOrders(S) ==
    {o \in [1..Cardinality(S) -> S] : \A i, j \in 1..Cardinality(S) : o[i] = o[j] => i = j}

\* `for i in set(self.all_finger)` under `only one multiplier number > 1`
RECURSIVE FingerLoop(_, _)
FingerLoop(f_iter, k) ==
    IF k > Len(f_iter) THEN None
    ELSE IF f_iter[k] > 1 THEN 2
    ELSE IF f_iter[k] < 1 THEN 3
    ELSE FingerLoop(f_iter, k + 1)

\* `for i in set(self.all_multiplier)` under `more than one multiplier number`
RECURSIVE MultiplierLoop(_, _, _)
MultiplierLoop(m_iter, k, all_f) ==
    IF k > Len(m_iter) THEN 3
    ELSE IF m_iter[k] > 1
         THEN IF Cardinality(Range(all_f)) = 1 /\ all_f[1] = 1 THEN 1
              ELSE MultiplierLoop(m_iter, k + 1, all_f)
    ELSE IF m_iter[k] < 1 THEN 3
    ELSE MultiplierLoop(m_iter, k + 1, all_f)

\* variant: every non-uniform multiplier vector is turned away
get_topology_condition_uniform(all_m, all_f, m_iter, f_iter) ==
    IF Cardinality(Range(all_m)) = 1
    THEN IF all_m[1] = 1 THEN 0
         ELSE IF all_m[1] > 1
              THEN IF Cardinality(Range(all_f)) = 1
                   THEN IF all_f[1] = 1 THEN 1
                        ELSE IF all_f[1] > 1 THEN 2
                        ELSE 3
                   ELSE IF Cardinality(Range(all_f)) > 1 THEN FingerLoop(f_iter, 1)
                   ELSE None
              ELSE 3
    ELSE IF Cardinality(Range(all_m)) > 1 THEN 3
    ELSE None

\* get_topology_condition; m_iter and f_iter are the orders in which the sets
\* of multiplier and finger values are iterated
get_topology_condition(all_m, all_f, m_iter, f_iter) ==
    IF Cardinality(Range(all_m)) = 1
    THEN IF all_m[1] = 1 THEN 0
         ELSE IF all_m[1] > 1
              THEN IF Cardinality(Range(all_f)) = 1
                   THEN IF all_f[1] = 1 THEN 1
                        ELSE IF all_f[1] > 1 THEN 2
                        ELSE 3
                   ELSE IF Cardinality(Range(all_f)) > 1 THEN FingerLoop(f_iter, 1)
                   ELSE None
              ELSE 3
    ELSE IF Cardinality(Range(all_m)) > 1 THEN MultiplierLoop(m_iter, 1, all_f)
    ELSE None

\* int(num) of one character
Digits == <<"0", "1", "2", "3", "4", "5", "6", "7", "8", "9">>
IsDigit(ch) == \E k \in 1..Len(Digits) : Digits[k] = ch
int(ch) == (CHOOSE k \in 1..Len(Digits) : Digits[k] = ch) - 1

\* inst.strip("][")
RECURSIVE LStrip(_), RStrip(_)
LStrip(str) ==
    IF Len(str) > 0 /\ str[1] \in {"]", "["} THEN LStrip(Tail(str)) ELSE str
RStrip(str) ==
    IF Len(str) > 0 /\ str[Len(str)] \in {"]", "["}
    THEN RStrip(SubSeq(str, 1, Len(str) - 1)) ELSE str

\* str.split(","), `cur` being the piece collected so far
RECURSIVE Split(_, _)
Split(str, cur) ==
    IF Len(str) = 0 THEN <<cur>>
    ELSE IF str[1] = "," THEN <<cur>> \o Split(Tail(str), <<>>)
    ELSE Split(Tail(str), Append(cur, str[1]))

\* re.match("\[.+\]", str) is not None
IsLiteral(str) == Len(str) >= 3 /\ str[1] = "[" /\ \E j \in 3..Len(str) : str[j] = "]"

\* `tmp.append(int(num)) if num != "d" else tmp.append('d')` over one piece
ParseRow(piece) == [k \in 1..Len(piece) |-> IF piece[k] = "d" THEN d ELSE int(piece[k])]

custom_2d_pattern(str) ==
    LET row_inst == Split(RStrip(LStrip(str)), <<>>)
    IN  IF \E r \in 1..Len(row_inst) : \E k \in 1..Len(row_inst[r]) :
               row_inst[r][k] # "d" /\ ~IsDigit(row_inst[r][k])
        THEN [status |-> "ValueError", pattern |-> <<>>]
        ELSE [status |-> "ok", pattern |-> [r \in 1..Len(row_inst) |-> ParseRow(row_inst[r])]]

\* get_topology_order(topology): `rows` tells whether the order is a list of
\* rows or a list of tokens
get_topology_order(topology, constraint, all_f, all_m) ==
    IF topology = "mf"
    THEN IF constraint.mf_sym = Str_None
         THEN [status |-> "ok", rows |-> FALSE, order |-> simple_1d_clustered_pattern(all_f)]
         ELSE IF constraint.mf_sym = Str_ID
         THEN [status |-> "ok", rows |-> FALSE, order |-> simple_1d_interdigitated_pattern(all_f)]
         ELSE IF constraint.mf_sym = Str_CC
         THEN [status |-> "ok", rows |-> FALSE, order |-> simple_1d_common_centroid_pattern(all_f)]
         ELSE IF IsLiteral(constraint.mf_sym)
         THEN LET c == custom_2d_pattern(constraint.mf_sym)
              IN  [status |-> c.status, rows |-> TRUE, order |-> c.pattern]
         ELSE [status |-> "ok", rows |-> FALSE, order |-> <<>>]
    ELSE IF constraint.mp_sym = Str_None /\ constraint.mp_row = 1
         THEN [status |-> "ok", rows |-> TRUE, order |-> <<simple_1d_clustered_pattern(all_m)>>]
         ELSE IF constraint.mp_sym = Str_ID
         THEN [status |-> "ok", rows |-> TRUE, order |-> <<simple_1d_interdigitated_pattern(all_m)>>]
         ELSE IF constraint.mp_sym = Str_CC
         THEN [status |-> "ok", rows |-> TRUE, order |-> <<simple_1d_common_centroid_pattern(all_m)>>]
         ELSE IF constraint.mp_sym = Str_None /\ constraint.mp_row > 1
         THEN [status |-> "ok", rows |-> TRUE,
               order |-> simple_2d_clustered_pattern(all_m, constraint.mp_row)]
         ELSE IF IsLiteral(constraint.mp_sym)
         THEN LET c == custom_2d_pattern(constraint.mp_sym)
              IN  [status |-> c.status, rows |-> TRUE, order |-> c.pattern]
         ELSE [status |-> "ok", rows |-> TRUE, order |-> <<>>]

\* `for i in order: inst = self.group.inst[i]; ...; euler.add_edge(source, drain, [gate])`
\* from position k on; the terminals made at position k are records number base + k
RECURSIVE AddInstEdges(_, _, _, _, _)
AddInstEdges(g, insts, tokens, k, base) ==
    IF k > Len(tokens) THEN [status |-> "ok", graph |-> g]
    ELSE IF tokens[k] = d THEN [status |-> "TypeError", graph |-> g]
    ELSE IF tokens[k] >= Len(insts) THEN [status |-> "IndexError", graph |-> g]
    ELSE LET inst == insts[tokens[k] + 1]
         IN  IF inst.finger = 0 THEN [status |-> "ZeroDivisionError", graph |-> g]
             ELSE LET length == inst.length
                      width  == inst.width \div inst.finger
                      source == MOSFET_Node("diff", inst.source, length, width, <<base + k, "s">>)
                      gate   == MOSFET_Node("gate", inst.gate, length, width, <<base + k, "g">>)
                      drain  == MOSFET_Node("diff", inst.drain, length, width, <<base + k, "d">>)
                  IN  AddInstEdges(add_edge(g, source, drain, <<gate>>, -1),
                                   insts, tokens, k + 1, base)

\* what a call of fleury_algorithm ends with
FleuryStatus(r) ==
    IF r.status = "returned" THEN "ok" ELSE IF r.status = "raised" THEN "IndexError" ELSE "loops"

generate_multi_finger_topology(insts, constraint, all_f, all_m) ==
    TheOne({
      IF mf_order.status # "ok" THEN [status |-> mf_order.status, nodelist |-> <<>>]
      ELSE IF mf_order.rows /\ Len(mf_order.order) > 0
      THEN [status |-> "TypeError", nodelist |-> <<>>]
      ELSE TheOne({
             IF mf_euler.status # "ok" THEN [status |-> mf_euler.status, nodelist |-> <<>>]
             ELSE TheOne({[status |-> FleuryStatus(r), nodelist |-> <<r.full_order>>] :
                          r \in {fleury_algorithm(mf_euler.graph, TRUE)}}) :
             mf_euler \in {AddInstEdges(EmptyGraph, insts, mf_order.order, 1, 0)}}) :
      mf_order \in {get_topology_order("mf", constraint, all_f, all_m)}})

\* `for row in mp_order` of generate_multiplier_topology from row r on
RECURSIVE MultiplierRows(_, _, _, _, _)
MultiplierRows(insts, mp_order, r, base, nodelist) ==
    IF r > Len(mp_order) THEN [status |-> "ok", nodelist |-> nodelist]
    ELSE TheOne({
           IF mp_euler.status # "ok" THEN [status |-> mp_euler.status, nodelist |-> nodelist]
           ELSE TheOne({
                  IF FleuryStatus(rowlist) # "ok"
                  THEN [status |-> FleuryStatus(rowlist), nodelist |-> nodelist]
                  ELSE MultiplierRows(insts, mp_order, r + 1, base + Len(mp_order[r]),
                                      Append(nodelist, rowlist.full_order)) :
                  rowlist \in {fleury_algorithm(mp_euler.graph, FALSE)}}) :
           mp_euler \in {AddInstEdges(EmptyGraph, insts, mp_order[r], 1, base)}})

generate_multiplier_topology(insts, constraint, all_f, all_m) ==
    TheOne({
      IF mp_order.status # "ok" THEN [status |-> mp_order.status, nodelist |-> <<>>]
      ELSE MultiplierRows(insts, mp_order.order, 1, 0, <<>>) :
      mp_order \in {get_topology_order("mp", constraint, all_f, all_m)}})

\* `for _ in range(n): mp_euler.add_edge(fir, lst, mid)`
RECURSIVE AddTrailEdges(_, _, _)
AddTrailEdges(g, trail, n) ==
    IF n <= 0 THEN g
    ELSE AddTrailEdges(add_edge(g, trail[1], trail[Len(trail)],
                                SubSeq(trail, 2, Len(trail) - 1), -1),
                       trail, n - 1)

\* `for _ in range(mp_row)` of generate_hybrid_topology, `left` rows to go
RECURSIVE HybridRows(_, _, _, _)
HybridRows(trail, per_row, left, nodelist) ==
    IF left <= 0 THEN [status |-> "ok", nodelist |-> nodelist]
    ELSE IF per_row > 0 /\ Len(trail) = 0 THEN [status |-> "IndexError", nodelist |-> nodelist]
    ELSE TheOne({
           IF FleuryStatus(rowlist) # "ok"
           THEN [status |-> FleuryStatus(rowlist), nodelist |-> nodelist]
           ELSE HybridRows(trail, per_row, left - 1, Append(nodelist, rowlist.full_order)) :
           rowlist \in {fleury_algorithm(AddTrailEdges(EmptyGraph, trail, per_row), FALSE)}})

generate_hybrid_topology(insts, constraint, all_f, all_m) ==
    TheOne({
      IF mf_nodelist.status # "ok" THEN [status |-> mf_nodelist.status, nodelist |-> <<>>]
      ELSE IF constraint.mp_row <= 0 THEN [status |-> "ok", nodelist |-> <<>>]
      ELSE HybridRows(mf_nodelist.nodelist[1], all_m[1] \div constraint.mp_row,
                      constraint.mp_row, <<>>) :
      mf_nodelist \in {generate_multi_finger_topology(insts, constraint, all_f, all_m)}})

\* generate_topology after get_topology_condition has returned `condition`:
\* how it ends and the nodelist it assigns to group.topology when it returns
generate_topology(insts, constraint, all_f, all_m, condition) ==
    IF condition = 0 THEN generate_multi_finger_topology(insts, constraint, all_f, all_m)
    ELSE IF condition = 1 THEN generate_multiplier_topology(insts, constraint, all_f, all_m)
    ELSE IF condition = 2 THEN generate_hybrid_topology(insts, constraint, all_f, all_m)
    ELSE IF condition = 3 THEN [status |-> "SystemExit", nodelist |-> <<>>]
    ELSE [status |-> "UnboundLocalError", nodelist |-> <<>>]

(***************************************************************************)
(* Layout generator (Layout.py). Coordinates are exact numbers counted in  *)
(* halves of the manufacturing grid, so that a value on the grid is even   *)
(* and the halving of a grid length is exact.                              *)
(***************************************************************************)
\* tech.unit["grid"]
grid == 2
\* self.tap_space = 0.2 and size_incr = 0.5, for a manufacturing grid of 0.1
tap_space == 4
size_incr == 10

\* int(p / q) for q > 0: the quotient cut towards zero
int_div(p, q) == IF p >= 0 THEN p \div q ELSE -((-p) \div q)

\* round(x / self.grid) * self.grid for x = p / q, q > 0: round goes to the
\* nearest integer, halves to the even one, whatever the sign
round_to_grid(p, q) ==
    (IF p >= 0 THEN PyRound(p, q * grid) ELSE -PyRound(-p, q * grid)) * grid

Box(layer, pt1, pt2) == [layer |-> layer, x |-> <<pt1[1], pt2[1]>>, y |-> <<pt1[2], pt2[2]>>]
Pin(net, layer, pt1, pt2) == [net |-> net, layer |-> layer, pt1 |-> pt1, pt2 |-> pt2]

Last(seq) == seq[Len(seq)]

\* self.group.shape[layer] += boxes
Extend(shape, layer, boxes) == [shape EXCEPT ![layer] = @ \o boxes]

\* the quadruples <<height, df_enc_co, co_sz, co_spc_co>>, in units of 0.05,
\* among the heights and rules drawn below, for which the floating-point
\* quotient ((height - df_enc_co * 2) - co_sz) / (co_sz + co_spc_co) falls
\* just below the whole number it is exactly, so that int() cuts it one
\* short: heights 0.5, 0.7 and 0.9 with rules of 0.1
\* ((0.5 - 0.2) - 0.1) / 0.2 = 0.9999999999999999
cut_short == {<<10, 2, 2, 2>>, <<14, 2, 2, 2>>, <<18, 2, 2, 2>>}

\* the contact array of a diffusion from df_y0 to df_y1 whose contacts start
\* at co_x0; n is num_co
co_array(rules, co_x0, df_y0, df_y1) ==
    TheOne({
      LET df_enc_co == ((df_y1 - df_y0) - (n * rules.co_sz) - ((n - 1) * rules.co_spc_co)) \div 2
      IN  [i \in 1..n |->
              LET co_y0 == df_y0 + df_enc_co + (i - 1) * (rules.co_sz + rules.co_spc_co)
              IN  Box(rules.co, <<co_x0, co_y0>>, <<co_x0 + rules.co_sz, co_y0 + rules.co_sz>>)] :
      n \in {int_div((df_y1 - df_y0) - rules.df_enc_co * 2 - rules.co_sz,
                     rules.co_sz + rules.co_spc_co)
              - (IF <<df_y1 - df_y0, rules.df_enc_co, rules.co_sz, rules.co_spc_co>>
                        \in cut_short THEN 1 ELSE 0)
              + 1}})

\* a diffusion with its contact array and metal1 from df_x0 on, df_y1 high:
\* the end of generate_first_diff_layout, generate_gate_diff_layout and
\* generate_break_diff_layout
contacted_diff(rules, shape, pin, curr_node, df_x0, df_y1) ==
    LET df_x1    == df_x0 + rules.df_enc_co * 2 + rules.co_sz
        df_y0    == 0
        df_shape == <<Box(rules.df, <<df_x0, df_y0>>, <<df_x1, df_y1>>)>>
        co_x0    == df_x0 + rules.df_enc_co
        co_x1    == co_x0 + rules.co_sz
    IN  IF rules.co_sz + rules.co_spc_co = 0
        THEN [status |-> "ZeroDivisionError", shape |-> shape, pin |-> pin]
        ELSE TheOne({
          IF Len(co_shape) = 0
          THEN [status |-> "IndexError", shape |-> shape, pin |-> pin]
          ELSE LET m1_x0 == co_x0 - rules.m1_enc_co
                   m1_x1 == co_x1 + rules.m1_enc_co
                   m1_y0 == co_shape[1].y[1] - rules.m1_enc_coe
                   m1_y1 == Last(co_shape).y[2] + rules.m1_enc_coe
                   m1_shape == <<Box(rules.m1, <<m1_x0, m1_y0>>, <<m1_x1, m1_y1>>)>>
               IN  [status |-> "ok",
                    shape  |-> Extend(Extend(Extend(shape, rules.df, df_shape),
                                             rules.co, co_shape), rules.m1, m1_shape),
                    pin    |-> Append(pin, Pin(curr_node.net, rules.m1,
                                               <<m1_x0, m1_y0>>, <<m1_x1, m1_y1>>))] :
          co_shape \in {co_array(rules, co_x0, df_y0, df_y1)}})

generate_first_diff_layout(rules, shape, pin, curr_node, next_node) ==
    IF next_node = NoNode THEN [status |-> "AttributeError", shape |-> shape, pin |-> pin]
    ELSE contacted_diff(rules, shape, pin, curr_node, 0,
                        Max(rules.df_enc_co * 2 + rules.co_sz, next_node.width))

\* a gate over its own diffusion from df_x0 on: the end of
\* generate_diff_gate_layout and generate_gate_gate_layout
gate_over_diff(rules, shape, pin, curr_node, df_x0) ==
    LET df_x1 == df_x0 + curr_node.length + rules.df_ext_po * 2
        df_y0 == 0
        df_y1 == curr_node.width
        po_x0 == df_x0 + rules.df_ext_po
        po_x1 == po_x0 + curr_node.length
        po_y0 == df_y0 - rules.po_ext_df
        po_y1 == df_y1 + rules.po_ext_df
    IN  [status |-> "ok",
         shape  |-> Extend(Extend(shape, rules.df, <<Box(rules.df, <<df_x0, df_y0>>, <<df_x1, df_y1>>)>>),
                           rules.po, <<Box(rules.po, <<po_x0, po_y0>>, <<po_x1, po_y1>>)>>),
         pin    |-> Append(pin, Pin(curr_node.net, rules.po, <<po_x0, po_y0>>, <<po_x1, po_y1>>))]

generate_diff_gate_layout(rules, shape, pin, curr_node) ==
    IF Len(shape[rules.co]) = 0 THEN [status |-> "IndexError", shape |-> shape, pin |-> pin]
    ELSE gate_over_diff(rules, shape, pin, curr_node,
                        Last(shape[rules.co]).x[2] + rules.po_spc_co - rules.df_ext_po)

generate_gate_diff_layout(rules, shape, pin, prev_node, curr_node, next_node) ==
    IF Len(shape[rules.po]) = 0 THEN [status |-> "IndexError", shape |-> shape, pin |-> pin]
    ELSE contacted_diff(rules, shape, pin, curr_node,
                        Last(shape[rules.po]).x[2] + rules.po_spc_co - rules.df_enc_co,
                        IF next_node # NoNode /\ next_node.type = "gate"
                        THEN Max(Max(rules.df_enc_co * 2 + rules.co_sz, prev_node.width), next_node.width)
                        ELSE Max(rules.df_enc_co * 2 + rules.co_sz, prev_node.width))

generate_gate_gate_layout(rules, shape, pin, curr_node) ==
    IF Len(shape[rules.po]) = 0 THEN [status |-> "IndexError", shape |-> shape, pin |-> pin]
    ELSE gate_over_diff(rules, shape, pin, curr_node,
                        Last(shape[rules.po]).x[2] + rules.ga_spc_ga - rules.df_ext_po)

\* a break diffusion drawn without its spacing, half a contact after the
\* start of the last diffusion's far enclosure
generate_break_diff_layout_unspaced(rules, shape, pin, curr_node, next_node) ==
    IF Len(shape[rules.df]) = 0 THEN [status |-> "IndexError", shape |-> shape, pin |-> pin]
    ELSE IF next_node = NoNode THEN [status |-> "AttributeError", shape |-> shape, pin |-> pin]
    ELSE contacted_diff(rules, shape, pin, curr_node,
                        Last(shape[rules.df]).x[2] - rules.df_enc_co * 2 - rules.co_sz \div 2,
                        Max(rules.df_enc_co * 2 + rules.co_sz, next_node.width))

generate_break_diff_layout(rules, shape, pin, curr_node, next_node) ==
    IF Len(shape[rules.df]) = 0 THEN [status |-> "IndexError", shape |-> shape, pin |-> pin]
    ELSE IF next_node = NoNode THEN [status |-> "AttributeError", shape |-> shape, pin |-> pin]
    ELSE contacted_diff(rules, shape, pin, curr_node,
                        Last(shape[rules.df]).x[2] + rules.df_spc_df,
                        Max(rules.df_enc_co * 2 + rules.co_sz, next_node.width))

\* a merge that takes the extents of the first box only
merge_shape_first(boxes) ==
    IF Len(boxes) = 0 THEN <<None, None, None, None>>
    ELSE <<boxes[1].x[1], boxes[1].x[2], boxes[1].y[1], boxes[1].y[2]>>

\* merge_shape: the extents <<x0, x1, y0, y1>> of the boxes, None four times
\* over when there is no box
merge_shape(boxes) ==
    IF Len(boxes) = 0 THEN <<None, None, None, None>>
    ELSE LET xs == {boxes[i].x[1] : i \in 1..Len(boxes)} \cup {boxes[i].x[2] : i \in 1..Len(boxes)}
             ys == {boxes[i].y[1] : i \in 1..Len(boxes)} \cup {boxes[i].y[2] : i \in 1..Len(boxes)}
         IN  <<CHOOSE v \in xs : \A w \in xs : v <= w, CHOOSE v \in xs : \A w \in xs : v >= w,
               CHOOSE v \in ys : \A w \in ys : v <= w, CHOOSE v \in ys : \A w \in ys : v >= w>>

\* the truth value of a number or None in a condition
Truthy(v) == v # None /\ v # 0

\* the greatest common divisor of a and b, b > 0
RECURSIVE gcd(_, _)
gcd(a, b) == IF a < 0 THEN gcd(-a, b) ELSE IF a = 0 THEN b ELSE gcd(b % a, a)

\* round(v) for v = rn / rd + sgn * sqrt(qn / qd): the nearest integer, the
\* even one of the two when v lies halfway
round_sqrt_sum(rn_, rd_, sgn, qn_, qd_) ==
    TheOne({ TheOne({
      LET rn == rn_ \div gr
          rd == rd_ \div gr
          qn == qn_ \div gq
          qd == qd_ \div gq
          \* the largest k with k * k <= qn / qd
          floor_sqrt == CHOOSE k \in 0..(qn \div qd) + 1 :
                            k * k * qd <= qn /\ (k + 1) * (k + 1) * qd > qn
          \* v >= cn / 2 and v <= cn / 2, by the sign and the square of
          \* tn / td = cn / 2 - rn / rd
          geq(cn) == LET tn == cn * rd - rn * 2
                         td == 2 * rd
                     IN  IF sgn > 0 THEN tn <= 0 \/ tn * tn * qd <= qn * td * td
                         ELSE tn <= 0 /\ qn * td * td <= tn * tn * qd
          leq(cn) == LET tn == cn * rd - rn * 2
                         td == 2 * rd
                     IN  IF sgn > 0 THEN tn >= 0 /\ qn * td * td <= tn * tn * qd
                         ELSE tn >= 0 \/ tn * tn * qd <= qn * td * td
          base == (IF rn >= 0 THEN rn \div rd ELSE -(((-rn) + rd - 1) \div rd)) + sgn * floor_sqrt
          near == {n \in base - 2..base + 2 : geq(2 * n - 1) /\ leq(2 * n + 1)}
      IN  IF Cardinality(near) = 1 THEN TheOne(near) ELSE CHOOSE n \in near : n % 2 = 0 :
      gr \in {gcd(rn_, rd_)}}) : gq \in {gcd(qn_, qd_)}})

\* insert_implant_shape: one implant box per diffusion, merged into one box
\* that is grown to the minimum implant area
insert_implant_shape(rules, shape) ==
    TheOne({ TheOne({
      LET w == m[2] - m[1]
          h == m[4] - m[3]
      IN  IF ~(Truthy(m[1]) /\ Truthy(m[2]) /\ Truthy(m[3]) /\ Truthy(m[4]))
          THEN [status |-> "ok", shape |-> [shape EXCEPT ![rules.im] = boxes]]
          ELSE IF w * h >= rules.im_area
          THEN [status |-> "ok",
                shape  |-> [shape EXCEPT ![rules.im] = <<Box(rules.im, <<m[1], m[3]>>, <<m[2], m[4]>>)>>]]
          ELSE IF w * h = 0
          THEN [status |-> "ZeroDivisionError", shape |-> [shape EXCEPT ![rules.im] = boxes]]
          \* scale = sqrt(im_area / (w * h));
          \* im_x0 = x0 - w * scale / 2, im_x1 = x1 + (x1 - im_x0) * scale / 2, and
          \* (x1 - im_x0) * scale / 2 = w * scale / 2 + im_area / (4 * h), and
          \* w * scale / 2 = sqrt(w * im_area / (4 * h))
          ELSE LET A     == rules.im_area
                   im_x0 == grid * round_sqrt_sum(m[1], grid, -1, w * A, 4 * grid * grid * h)
                   im_x1 == grid * round_sqrt_sum(4 * h * m[2] + A, 4 * h * grid, 1,
                                                  w * A, 4 * grid * grid * h)
                   im_y0 == grid * round_sqrt_sum(m[3], grid, -1, h * A, 4 * grid * grid * w)
                   im_y1 == grid * round_sqrt_sum(4 * w * m[4] + A, 4 * w * grid, 1,
                                                  h * A, 4 * grid * grid * w)
               IN  [status |-> "ok",
                    shape  |-> [shape EXCEPT ![rules.im] = <<Box(rules.im, <<im_x0, im_y0>>, <<im_x1, im_y1>>)>>]] :
      m \in {merge_shape(boxes)}}) :
      boxes \in {shape[rules.im] \o
                 [i \in 1..Len(shape[rules.df]) |->
                     LET df    == shape[rules.df][i]
                         enc_y == Max(rules.im_enc_df, rules.im_enc_ga)
                     IN  Box(rules.im, <<df.x[1] - rules.im_enc_df, df.y[1] - enc_y>>,
                                       <<df.x[2] + rules.im_enc_df, df.y[2] + enc_y>>)]}})

\* insert_nwell_shape: for a pmos group, one well box per diffusion and tap
\* diffusion, merged into one box that is grown about its centre to the
\* minimum well area
insert_nwell_shape(rules, type, shape) ==
    IF type # "pmos" THEN [status |-> "ok", shape |-> shape]
    ELSE
    TheOne({ TheOne({
      LET w == m[2] - m[1]
          h == m[4] - m[3]
      IN  IF ~(Truthy(m[1]) /\ Truthy(m[2]) /\ Truthy(m[3]) /\ Truthy(m[4]))
          THEN [status |-> "ok", shape |-> [shape EXCEPT ![rules.nw] = boxes]]
          ELSE IF w * h >= rules.nw_area
          THEN [status |-> "ok",
                shape  |-> [shape EXCEPT ![rules.nw] = <<Box(rules.nw, <<m[1], m[3]>>, <<m[2], m[4]>>)>>]]
          ELSE IF w * h = 0
          THEN [status |-> "ZeroDivisionError", shape |-> [shape EXCEPT ![rules.nw] = boxes]]
          \* width / 2 = w * scale / 2 = sqrt(w * nw_area / (4 * h))
          ELSE LET A     == rules.nw_area
                   nw_x0 == grid * round_sqrt_sum(m[1] + m[2], 2 * grid, -1, w * A, 4 * grid * grid * h)
                   nw_x1 == grid * round_sqrt_sum(m[1] + m[2], 2 * grid, 1, w * A, 4 * grid * grid * h)
                   nw_y0 == grid * round_sqrt_sum(m[3] + m[4], 2 * grid, -1, h * A, 4 * grid * grid * w)
                   nw_y1 == grid * round_sqrt_sum(m[3] + m[4], 2 * grid, 1, h * A, 4 * grid * grid * w)
               IN  [status |-> "ok",
                    shape  |-> [shape EXCEPT ![rules.nw] = <<Box(rules.nw, <<nw_x0, nw_y0>>, <<nw_x1, nw_y1>>)>>]] :
      m \in {merge_shape(boxes)}}) :
      boxes \in {shape[rules.nw] \o
                 [i \in 1..Len(shape[rules.df] \o shape[rules.tdf]) |->
                     LET df == (shape[rules.df] \o shape[rules.tdf])[i]
                     IN  Box(rules.nw, <<df.x[1] - rules.nw_enc_pdf, df.y[1] - rules.nw_enc_pdf>>,
                                       <<df.x[2] + rules.nw_enc_pdf, df.y[2] + rules.nw_enc_pdf>>)]}})

\* create_body. A tap is the record of the lists the code fills for it.
NoTap == [tim |-> <<>>, tdf |-> <<>>, tco |-> <<>>, m1 |-> <<>>, pin |-> <<>>, status |-> "ok"]

tap_dist(rules) == Max(Max(rules.tim_spc_df, rules.im_spc_tdf - rules.tim_enc_tdf), tap_space)

\* the tap diffusion, contact row, metal1 and pin of a top or bottom tap whose
\* implant is tim
row_tap(rules, shape, body_net, tim) ==
    LET tdf_x0 == shape[rules.df][1].x[1]
        tdf_x1 == Last(shape[rules.df]).x[2]
        tdf_y0 == tim.y[1] + rules.tim_enc_tdf
        tdf_y1 == tim.y[2] - rules.tim_enc_tdf
        n      == int_div((tdf_x1 - tdf_x0) - rules.tdf_enc_tco * 2 - rules.co_sz,
                          rules.co_sz + rules.co_spc_co) + 1
        tdf_enc_tco_x == ((tdf_x1 - tdf_x0) - (n * rules.co_sz) - ((n - 1) * rules.co_spc_co)) \div 2
        tdf_enc_tco_y == ((tdf_y1 - tdf_y0) - rules.co_sz) \div 2
        tco_y0 == tdf_y0 + tdf_enc_tco_y
        tco_y1 == tdf_y1 - tdf_enc_tco_y
    IN  IF n < 1 THEN [NoTap EXCEPT !.status = "IndexError"]
        ELSE TheOne({
          LET m1_x0 == tco[1].x[1] - rules.m1_enc_coe
              m1_x1 == Last(tco).x[2] + rules.m1_enc_coe
              m1_y0 == tco_y0 - rules.m1_enc_co
              m1_y1 == tco_y1 + rules.m1_enc_co
          IN  [tim |-> <<tim>>,
               tdf |-> <<Box(rules.tdf, <<tdf_x0, tdf_y0>>, <<tdf_x1, tdf_y1>>)>>,
               tco |-> tco,
               m1  |-> <<Box(rules.m1, <<m1_x0, m1_y0>>, <<m1_x1, m1_y1>>)>>,
               pin |-> <<Pin(body_net, rules.m1, <<m1_x0, m1_y0>>, <<m1_x1, m1_y1>>)>>,
               status |-> "ok"] :
          tco \in {[i \in 1..n |->
                      LET tco_x0 == tdf_x0 + tdf_enc_tco_x + (i - 1) * (rules.co_sz + rules.co_spc_co)
                      IN  Box(rules.co, <<tco_x0, tco_y0>>, <<tco_x0 + rules.co_sz, tco_y1>>)]}})

top_tap(rules, shape, tap_position, body_net) ==
    IF Len(shape[rules.df]) = 0 \/ Len(shape[rules.im]) = 0
    THEN [NoTap EXCEPT !.status = "IndexError"]
    ELSE
    LET tim_x0 == shape[rules.df][1].x[1] - rules.tim_enc_tdf
        tim_x1 == Last(shape[rules.df]).x[2] + rules.tim_enc_tdf
        tim_y0 == shape[rules.im][1].y[2] + tap_dist(rules)
        y1_a   == tim_y0 + rules.tim_enc_tdf * 2 + rules.tdf_enc_tco * 2 + rules.co_sz
        \* minimum implant width rule
        y1_b   == IF y1_a - tim_y0 < rules.im_wid
                  THEN round_to_grid(tim_y0 + rules.im_wid, 1) ELSE y1_a
        \* minimum implant area rule
        heal   == /\ <<"r">> \notin Range(tap_position) /\ <<"l">> \notin Range(tap_position)
                  /\ (y1_b - tim_y0) * (tim_x1 - tim_x0) < rules.tim_area
    IN  IF heal /\ tim_x1 - tim_x0 = 0 THEN [NoTap EXCEPT !.status = "ZeroDivisionError"]
        ELSE LET tim_y1 == IF heal
                           THEN round_to_grid(tim_y0 * (tim_x1 - tim_x0) + rules.tim_area,
                                              tim_x1 - tim_x0)
                           ELSE y1_b
             IN  TheOne({row_tap(rules, shape, body_net, tim) :
                         tim \in {Box(rules.tim, <<tim_x0, tim_y0>>, <<tim_x1, tim_y1>>)}})

btm_tap(rules, shape, tap_position, body_net) ==
    IF Len(shape[rules.df]) = 0 \/ Len(shape[rules.im]) = 0
    THEN [NoTap EXCEPT !.status = "IndexError"]
    ELSE
    LET tim_x0 == shape[rules.df][1].x[1] - rules.tim_enc_tdf
        tim_x1 == Last(shape[rules.df]).x[2] + rules.tim_enc_tdf
        tim_y1 == shape[rules.im][1].y[1] - tap_dist(rules)
        y0_a   == tim_y1 - rules.tim_enc_tdf * 2 - rules.tdf_enc_tco * 2 - rules.co_sz
        y0_b   == IF tim_y1 - y0_a < rules.im_wid
                  THEN round_to_grid(tim_y1 - rules.im_wid, 1) ELSE y0_a
        heal   == /\ <<"r">> \notin Range(tap_position) /\ <<"l">> \notin Range(tap_position)
                  /\ (tim_y1 - y0_b) * (tim_x1 - tim_x0) < rules.tim_area
    IN  IF heal /\ tim_x1 - tim_x0 = 0 THEN [NoTap EXCEPT !.status = "ZeroDivisionError"]
        ELSE LET tim_y0 == IF heal
                           THEN round_to_grid(tim_y1 * (tim_x1 - tim_x0) - rules.tim_area,
                                              tim_x1 - tim_x0)
                           ELSE y0_b
             IN  TheOne({row_tap(rules, shape, body_net, tim) :
                         tim \in {Box(rules.tim, <<tim_x0, tim_y0>>, <<tim_x1, tim_y1>>)}})

\* the tap diffusion, contact column, metal1 and pin of a right (k = 2) or
\* left (k = 1) tap whose implant spans tim_x0..tim_x1, with the top and
\* bottom taps it stretches
col_tap(rules, shape, tap_position, body_net, top, btm, k, tim_x0, tim_x1, tim_y0, tim_y1) ==
    LET joined == <<"t">> \in Range(tap_position) \/ <<"b">> \in Range(tap_position)
        \* the loops over the shapes of the top and bottom taps: the lower edge
        \* follows the lowest upper edge below it, the upper edge the highest
        \* lower edge above it
        follow_y0(y0, boxes) ==
            LET ys == {y0} \cup {boxes[i].y[2] : i \in 1..Len(boxes)}
            IN  CHOOSE v \in ys : \A w \in ys : v <= w
        follow_y1(y1, boxes) ==
            LET ys == {y1} \cup {boxes[i].y[1] : i \in 1..Len(boxes)}
            IN  CHOOSE v \in ys : \A w \in ys : v >= w
        \* shp.x[k - 1] = v for every shape of the list
        set_x(boxes, v) == [i \in 1..Len(boxes) |-> [boxes[i] EXCEPT !.x[k] = v]]
        tim    == Box(rules.tim, <<tim_x0, IF joined THEN follow_y0(tim_y0, top.tim \o btm.tim) ELSE tim_y0>>,
                                 <<tim_x1, IF joined THEN follow_y1(tim_y1, top.tim \o btm.tim) ELSE tim_y1>>)
        tdf_x0 == tim_x0 + rules.tim_enc_tdf
        tdf_x1 == tim_x1 - rules.tim_enc_tdf
        df_y0  == shape[rules.df][1].y[1]
        df_y1  == Last(shape[rules.df]).y[2]
        tdf_y0 == IF joined THEN follow_y0(df_y0, top.tdf \o btm.tdf) ELSE df_y0
        tdf_y1 == IF joined THEN follow_y1(df_y1, top.tdf \o btm.tdf) ELSE df_y1
        n      == int_div((tdf_y1 - tdf_y0) - rules.tdf_enc_tco * 2 - rules.co_sz,
                          rules.co_sz + rules.co_spc_co) + 1
        tdf_enc_tco_x == ((tdf_x1 - tdf_x0) - rules.co_sz) \div 2
        tdf_enc_tco_y == ((tdf_y1 - tdf_y0) - (n * rules.co_sz) - ((n - 1) * rules.co_spc_co)) \div 2
        tco_x0 == tdf_x0 + tdf_enc_tco_x
        tco_x1 == tdf_x1 - tdf_enc_tco_x
        edge(v1, v2) == IF k = 2 THEN v2 ELSE v1
        stretch(tap, m1_x) ==
            IF joined
            THEN [tap EXCEPT !.tim = set_x(@, edge(tim_x0, tim_x1)),
                             !.tdf = set_x(@, edge(tdf_x0, tdf_x1)),
                             !.m1  = set_x(@, m1_x),
                             !.pin = [i \in 1..Len(@) |->
                                         IF k = 2 THEN [@[i] EXCEPT !.pt2[1] = m1_x]
                                         ELSE [@[i] EXCEPT !.pt1[1] = m1_x]]]
            ELSE tap
    IN  IF n < 1 THEN [top |-> top, btm |-> btm, side |-> [NoTap EXCEPT !.status = "IndexError"]]
        ELSE TheOne({
          LET m1_x0 == tco_x0 - rules.m1_enc_co
              m1_x1 == tco_x1 + rules.m1_enc_co
              co_y0 == tco[1].y[1] - rules.m1_enc_coe
              co_y1 == Last(tco).y[2] + rules.m1_enc_coe
              m1_y0 == IF joined THEN follow_y0(co_y0, top.m1 \o btm.m1) ELSE co_y0
              m1_y1 == IF joined THEN follow_y1(co_y1, top.m1 \o btm.m1) ELSE co_y1
          IN  [top  |-> stretch(top, edge(m1_x0, m1_x1)),
               btm  |-> stretch(btm, edge(m1_x0, m1_x1)),
               side |-> [tim |-> <<tim>>,
                         tdf |-> <<Box(rules.tdf, <<tdf_x0, tdf_y0>>, <<tdf_x1, tdf_y1>>)>>,
                         tco |-> tco,
                         m1  |-> <<Box(rules.m1, <<m1_x0, m1_y0>>, <<m1_x1, m1_y1>>)>>,
                         pin |-> <<Pin(body_net, rules.m1, <<m1_x0, m1_y0>>, <<m1_x1, m1_y1>>)>>,
                         status |-> "ok"]] :
          tco \in {[i \in 1..n |->
                      LET tco_y0 == tdf_y0 + tdf_enc_tco_y + (i - 1) * (rules.co_sz + rules.co_spc_co)
                      IN  Box(rules.co, <<tco_x0, tco_y0>>, <<tco_x1, tco_y0 + rules.co_sz>>)]}})

rgt_tap(rules, shape, tap_position, body_net, top, btm) ==
    IF Len(shape[rules.df]) = 0 \/ Len(shape[rules.im]) = 0
    THEN [top |-> top, btm |-> btm, side |-> [NoTap EXCEPT !.status = "IndexError"]]
    ELSE
    LET tim_y0 == shape[rules.df][1].y[1] - rules.tim_enc_tdf
        tim_y1 == Last(shape[rules.df]).y[2] + rules.tim_enc_tdf
        tim_x0 == shape[rules.im][1].x[2] + tap_dist(rules)
        x1_a   == tim_x0 + rules.tim_enc_tdf * 2 + rules.tdf_enc_tco * 2 + rules.co_sz
        x1_b   == IF x1_a - tim_x0 < rules.im_wid
                  THEN round_to_grid(tim_x0 + rules.im_wid, 1) ELSE x1_a
        heal   == /\ <<"t">> \notin Range(tap_position) /\ <<"b">> \notin Range(tap_position)
                  /\ (tim_y1 - tim_y0) * (x1_b - tim_x0) < rules.tim_area
    IN  IF heal /\ tim_y1 - tim_y0 = 0
        THEN [top |-> top, btm |-> btm, side |-> [NoTap EXCEPT !.status = "ZeroDivisionError"]]
        ELSE LET tim_x1 == IF heal
                           THEN round_to_grid(tim_x0 * (tim_y1 - tim_y0) + rules.tim_area,
                                              tim_y1 - tim_y0)
                           ELSE x1_b
             IN  TheOne({col_tap(rules, shape, tap_position, body_net, top, btm, 2,
                                 tim_x0, x1, tim_y0, tim_y1) : x1 \in {tim_x1}})

lft_tap(rules, shape, tap_position, body_net, top, btm) ==
    IF Len(shape[rules.df]) = 0 \/ Len(shape[rules.im]) = 0
    THEN [top |-> top, btm |-> btm, side |-> [NoTap EXCEPT !.status = "IndexError"]]
    ELSE
    LET tim_y0 == shape[rules.df][1].y[1] - rules.tim_enc_tdf
        tim_y1 == Last(shape[rules.df]).y[2] + rules.tim_enc_tdf
        tim_x1 == shape[rules.im][1].x[1] - tap_dist(rules)
        x0_a   == tim_x1 - rules.tim_enc_tdf * 2 - rules.tdf_enc_tco * 2 - rules.co_sz
        x0_b   == IF tim_x1 - x0_a < rules.im_wid
                  THEN round_to_grid(tim_x1 - rules.im_wid, 1) ELSE x0_a
        heal   == /\ <<"t">> \notin Range(tap_position) /\ <<"b">> \notin Range(tap_position)
                  /\ (tim_y1 - tim_y0) * (tim_x1 - x0_b) < rules.tim_area
    IN  IF heal /\ tim_y1 - tim_y0 = 0
        THEN [top |-> top, btm |-> btm, side |-> [NoTap EXCEPT !.status = "ZeroDivisionError"]]
        ELSE LET tim_x0 == IF heal
                           THEN round_to_grid(tim_x1 * (tim_y1 - tim_y0) - rules.tim_area,
                                              tim_y1 - tim_y0)
                           ELSE x0_b
             IN  TheOne({col_tap(rules, shape, tap_position, body_net, top, btm, 1,
                                 x0, tim_x1, tim_y0, tim_y1) : x0 \in {tim_x0}})

\* create_body(body_net): the taps named in constraint["tap"], top, bottom,
\* right and left in this order, appended to the shapes and pins of the group
create_body(rules, shape, pin, tap, body_net) ==
    IF Len(tap) = 0 THEN [status |-> "ok", shape |-> shape, pin |-> pin]
    ELSE
    LET has(tap_position, ch) == <<ch>> \in Range(tap_position)
    IN  TheOne({ TheOne({ TheOne({ TheOne({ TheOne({
          LET all(f) == l.top[f] \o l.btm[f] \o r.side[f] \o l.side[f]
          IN  IF l.side.status # "ok" THEN [status |-> l.side.status, shape |-> shape, pin |-> pin]
              ELSE [status |-> "ok",
                    shape  |-> [shape EXCEPT ![rules.tim] = @ \o all("tim"),
                                             ![rules.tdf] = @ \o all("tdf"),
                                             ![rules.co]  = @ \o all("tco"),
                                             ![rules.m1]  = @ \o all("m1")],
                    pin    |-> pin \o all("pin")] :
          l \in {IF r.side.status # "ok" THEN r
                 ELSE IF has(tap_position, "l")
                 THEN lft_tap(rules, shape, tap_position, body_net, r.top, r.btm)
                 ELSE [top |-> r.top, btm |-> r.btm, side |-> NoTap]}}) :
          r \in {IF btm.status # "ok" THEN [top |-> top, btm |-> btm, side |-> btm]
                 ELSE IF has(tap_position, "r")
                 THEN rgt_tap(rules, shape, tap_position, body_net, top, btm)
                 ELSE [top |-> top, btm |-> btm, side |-> NoTap]}}) :
          btm \in {IF top.status # "ok" THEN top
                   ELSE IF has(tap_position, "b")
                   THEN btm_tap(rules, shape, tap_position, body_net) ELSE NoTap}}) :
          top \in {IF has(tap_position, "t")
                   THEN top_tap(rules, shape, tap_position, body_net) ELSE NoTap}}) :
          tap_position \in {Split(tap, <<>>)}})

\* create_boundary: the extents of the implants grown by size_incr become the
\* boundary, and every shape and every pin of the group is moved so that the
\* boundary starts at the origin
create_boundary(rules, shape, pin) ==
    TheOne({
      IF m[1] = None THEN [status |-> "TypeError", shape |-> shape, pin |-> pin, boundary |-> None]
      ELSE TheOne({ TheOne({
             LET br_x1 == m[2] + size_incr
                 br_y1 == m[4] + size_incr
                 boundary == Box("boundary", <<0, 0>>, <<br_x1 - br_x0, br_y1 - br_y0>>)
             IN  [status   |-> "ok",
                  shape    |-> [layer \in DOMAIN shape \cup {"boundary"} |->
                                   IF layer = "boundary" THEN <<boundary>>
                                   ELSE [i \in 1..Len(shape[layer]) |->
                                            [shape[layer][i] EXCEPT
                                                !.x = <<@[1] - br_x0, @[2] - br_x0>>,
                                                !.y = <<@[1] - br_y0, @[2] - br_y0>>]]],
                  pin      |-> [i \in 1..Len(pin) |->
                                   [pin[i] EXCEPT !.pt1 = <<@[1] - br_x0, @[2] - br_y0>>,
                                                  !.pt2 = <<@[1] - br_x0, @[2] - br_y0>>]],
                  boundary |-> boundary] :
             br_x0 \in {m[1] - size_incr}}) : br_y0 \in {m[3] - size_incr}}) :
      m \in {merge_shape(shape[rules.im] \o shape[rules.tim])}})

(***************************************************************************)
(* State machine 1: a multigraph is built with add_edge, then              *)
(* fleury_algorithm runs on it.                                            *)
(***************************************************************************)
NoOp == [op |-> "none", before |-> EmptyGraph, edge |-> EulerEdge(NoNode, NoNode, <<>>),
         i |-> Unbound, bridge |-> FALSE]

Gate(k, tag) == MOSFET_Node("gate", "g", 1, 1, <<k, tag>>)
Diff(n, k, tag) == MOSFET_Node("diff", n, 1, 1, <<k, tag>>)

\* the interiors an edge is given: the gate of one finger ([gate]), or the
\* middle of a finger trail (mf_nodelist[0][1:-1], here of a 2-finger trail)
Interior(kind, k, n) ==
    IF kind = "gate" THEN <<Gate(k, "g")>>
    ELSE <<Gate(k, "g"), Diff(n, k, "m"), Gate(k, "h")>>

\* the nets the next terminal can be on: one the graph knows, or the next new one
NetChoices(g) ==
    {g.keys[i] : i \in 1..Len(g.keys)} \cup
    (IF Len(g.keys) < Len(NetOrder) THEN {NetOrder[Len(g.keys) + 1]} ELSE {})

\* no pattern function has been called
NoPatternCall ==
    /\ pat_inst = <<>>
    /\ pat_row = 1
    /\ pat_called = "none"
    /\ pat_out = <<>>

\* the rule values of a technology whose implants enclose by enc and whose
\* minimum areas are area (implants) and 4 * area (well); the two tap spacing
\* rules are absent
Tech(enc, area) ==
    [co_sz |-> 2, ga_spc_ga |-> 4, po_spc_co |-> 2, co_spc_co |-> 2,
     df_enc_co |-> 2, df_spc_df |-> 4, po_ext_df |-> 2, df_ext_po |-> 2,
     im_enc_df |-> enc, im_enc_ga |-> enc, im_wid |-> 4, im_area |-> area,
     nw_enc_pdf |-> 4, nw_area |-> 4 * area, m1_enc_co |-> 0, m1_enc_coe |-> 2,
     tim_enc_tdf |-> 2, tdf_enc_tco |-> 2, tim_spc_df |-> None, im_spc_tdf |-> None,
     tim_area |-> area]

\* no layout has been generated
NoLayout ==
    /\ group_type = "nmos"
    /\ tech = Tech(0, 0)
    /\ group_shape = <<>>
    /\ group_pin = <<>>
    /\ group_boundary = None
    /\ core_pc = "off"
    /\ row_pos = <<1, 1>>
    /\ runs = 0
    /\ after_first = None

\* no group has been handed to the core
NoGroup ==
    /\ group_inst = <<>>
    /\ group_constraint = [mf_sym |-> Str_None, mp_sym |-> Str_None, mp_row |-> 1, tap |-> <<>>]
    /\ group_topology = [assigned |-> FALSE, rows |-> <<>>]
    /\ all_finger = <<>>
    /\ all_multiplier = <<>>
    /\ topo_condition = None
    /\ topo_status = "idle"
    /\ NoLayout

InitFleury ==
    /\ NoGroup
    /\ graph = EmptyGraph
    /\ inserted = <<>>
    /\ pc = "build"
    /\ finger = TRUE
    /\ stack = <<>>
    /\ order = <<>>
    /\ full_order = <<>>
    /\ start_node = NoNode
    /\ first_start = NoNode
    /\ last = NoOp
    /\ NoPatternCall

\* mf_euler.add_edge(source, drain, [gate]) with fresh terminal records; the
\* edges of one graph carry interiors of one kind
AddEdge(un, vn, kind) ==
    /\ pc = "build"
    /\ Len(inserted) > 0 => Len(inserted[1].e) = Len(Interior(kind, 1, un))
    /\ LET k == Len(inserted) + 1
           u == Diff(un, k, "u")
           v == Diff(vn, k, "v")
           e == Interior(kind, k, un)
       IN  /\ graph' = add_edge(graph, u, v, e, -1)
           /\ inserted' = Append(inserted, EulerEdge(u, v, e))
    /\ last' = NoOp
    /\ UNCHANGED <<pc, finger, stack, order, full_order, start_node, first_start>>
    /\ UNCHANGED NotGraph

\* mp_euler.add_edge(fir, lst, mid) again, with the records of the previous call
AddParallelEdge ==
    /\ pc = "build"
    /\ Len(inserted) >= 1
    /\ LET p == inserted[Len(inserted)]
       IN  /\ graph' = add_edge(graph, p.u, p.v, p.e, -1)
           /\ inserted' = Append(inserted, p)
    /\ last' = NoOp
    /\ UNCHANGED <<pc, finger, stack, order, full_order, start_node, first_start>>
    /\ UNCHANGED NotGraph

\* fleury_algorithm(finger) is called: full_order = []
CallFleury(f) ==
    /\ pc = "build"
    /\ pc' = "start"
    /\ finger' = f
    /\ full_order' = <<>>
    /\ UNCHANGED <<graph, inserted, stack, order, start_node, first_start, last>>
    /\ UNCHANGED NotGraph

\* top of the while loop: start_node = initial_node(); order = [start_node] or [];
\* dfs_order(start_node.net, order, finger) is entered
InitialNode ==
    /\ pc = "start"
    /\ Len(full_order) < MaxOrder
    /\ LET r == initial_node(graph)
       IN  IF r.ok
           THEN /\ start_node' = r.node
                /\ first_start' = IF first_start = NoNode THEN r.node ELSE first_start
                /\ order' = IF finger THEN <<r.node>> ELSE <<>>
                /\ stack' = <<[node |-> r.node.net, it |-> 0]>>
                /\ pc' = "dfs"
           ELSE /\ pc' = "raised"
                /\ UNCHANGED <<start_node, first_start, order, stack>>
    /\ UNCHANGED <<graph, inserted, finger, full_order, last>>
    /\ UNCHANGED NotGraph

\* one iteration of the for loop of the innermost dfs_order call
DfsOrderStep ==
    /\ pc = "dfs"
    /\ Len(stack) > 0
    /\ LET top == stack[Len(stack)]
       IN  /\ top.it < Len(graph.adj[top.node])
           /\ LET r == dfs_order_iteration(graph, top.node, top.it)
                  to_node == IF r.edge.u.net = top.node THEN r.edge.v ELSE r.edge.u
                  advanced == [stack EXCEPT ![Len(stack)].it = top.it + 1]
              IN  /\ graph' = r.graph
                  /\ IF r.take
                     THEN /\ order' = order \o Contribution(r.edge, top.node, finger)
                          /\ stack' = Append(advanced, [node |-> to_node.net, it |-> 0])
                     ELSE /\ order' = order
                          /\ stack' = advanced
    /\ UNCHANGED <<inserted, pc, finger, full_order, start_node, first_start, last>>
    /\ UNCHANGED NotGraph

\* the for loop of the innermost dfs_order call is exhausted: it returns
DfsOrderReturn ==
    /\ pc = "dfs"
    /\ Len(stack) > 0
    /\ stack[Len(stack)].it >= Len(graph.adj[stack[Len(stack)].node])
    /\ stack' = SubSeq(stack, 1, Len(stack) - 1)
    /\ UNCHANGED <<graph, inserted, pc, finger, order, full_order, start_node, first_start, last>>
    /\ UNCHANGED NotGraph

\* dfs_order has returned to fleury_algorithm: full_order.extend(order), then
\* either go round the while loop again or return full_order
FleuryLoopEnd ==
    /\ pc = "dfs"
    /\ Len(stack) = 0
    /\ full_order' = full_order \o order
    /\ pc' = IF unconnected(graph) THEN "start" ELSE "returned"
    /\ UNCHANGED <<graph, inserted, finger, stack, order, start_node, first_start, last>>
    /\ UNCHANGED NotGraph

NextFleury ==
    \/ \E un \in NetChoices(graph) : \E vn \in NetChoices(Touch(graph, un)) :
           \E kind \in {"gate", "mid"} : Len(inserted) < MaxEdges /\ AddEdge(un, vn, kind)
    \/ Len(inserted) < MaxEdges /\ AddParallelEdge
    \/ \E f \in BOOLEAN : CallFleury(f)
    \/ InitialNode
    \/ DfsOrderStep
    \/ DfsOrderReturn
    \/ FleuryLoopEnd

SpecFleury == InitFleury /\ [][NextFleury]_vars

\* the same run on graphs of up to MaxTrail edges, each a single finger (the
\* interior is one gate): the graphs generate_multi_finger_topology builds
NextTraversal ==
    \/ \E un \in NetChoices(graph) : \E vn \in NetChoices(Touch(graph, un)) :
           Len(inserted) < MaxTrail /\ AddEdge(un, vn, "gate")
    \/ Len(inserted) < MaxTrail /\ AddParallelEdge
    \/ \E f \in BOOLEAN : CallFleury(f)
    \/ InitialNode
    \/ DfsOrderStep
    \/ DfsOrderReturn
    \/ FleuryLoopEnd

SpecTraversal == InitFleury /\ [][NextTraversal]_vars

(***************************************************************************)
(* State machine 2: add_edge, remove_edge and is_bridge called in any      *)
(* order on one graph; remove_edge and is_bridge are called for a          *)
(* half-edge the graph holds, the way dfs_order calls them.                *)
(***************************************************************************)
\* self.graph.remove_edge(from_node, to_node.net, edge.e) for the j-th half-edge under n
RemoveEdge(n, j) ==
    /\ pc = "build"
    /\ j \in 1..Len(graph.adj[n])
    /\ LET edge == graph.adj[n][j]
           r    == remove_edge(graph, n, edge.v.net, edge.e)
       IN  /\ graph' = r.graph
           /\ last' = [op |-> "remove_edge", before |-> graph, edge |-> edge,
                       i |-> r.i, bridge |-> FALSE]
    /\ UNCHANGED <<inserted, pc, finger, stack, order, full_order, start_node, first_start>>
    /\ UNCHANGED NotGraph

\* self.is_bridge(edge) for the j-th half-edge under n
IsBridge(n, j) ==
    /\ pc = "build"
    /\ j \in 1..Len(graph.adj[n])
    /\ LET edge == graph.adj[n][j]
           r    == is_bridge(graph, edge)
       IN  /\ graph' = r.graph
           /\ last' = [op |-> "is_bridge", before |-> graph, edge |-> edge,
                       i |-> remove_edge(graph, edge.u.net, edge.v.net, edge.e).i,
                       bridge |-> r.bridge]
    /\ UNCHANGED <<inserted, pc, finger, stack, order, full_order, start_node, first_start>>
    /\ UNCHANGED NotGraph

NextGraph ==
    \/ \E un \in NetChoices(graph) : \E vn \in NetChoices(Touch(graph, un)) :
           \E kind \in {"gate", "mid"} : Len(inserted) < MaxAdds /\ AddEdge(un, vn, kind)
    \/ Len(inserted) < MaxAdds /\ AddParallelEdge
    \/ \E n \in Nets : \E j \in 1..MaxAdds * 2 : RemoveEdge(n, j)
    \/ \E n \in Nets : \E j \in 1..MaxAdds * 2 : IsBridge(n, j)

SpecGraph == InitFleury /\ [][NextGraph]_vars

(***************************************************************************)
(* The pattern functions applied to count vectors of positive integers.    *)
(***************************************************************************)
CountVectors == UNION {[1..n -> 1..MaxCount] : n \in 1..MaxClasses}

\* no graph has been built and no traversal started
NoGraph ==
    /\ graph = EmptyGraph
    /\ inserted = <<>>
    /\ pc = "build"
    /\ finger = TRUE
    /\ stack = <<>>
    /\ order = <<>>
    /\ full_order = <<>>
    /\ start_node = NoNode
    /\ first_start = NoNode
    /\ last = NoOp

InitPattern ==
    /\ NoGraph
    /\ NoGroup
    /\ pat_inst \in CountVectors
    /\ pat_row \in 1..MaxRow
    /\ pat_called = "none"
    /\ pat_out = <<>>

SimpleClustered ==
    /\ pat_called' = "simple_1d_clustered_pattern"
    /\ pat_out' = simple_1d_clustered_pattern(pat_inst)
    /\ UNCHANGED <<pat_inst, pat_row, graphVars, topoVars, layoutVars>>

SimpleInterdigitated ==
    /\ pat_called' = "simple_1d_interdigitated_pattern"
    /\ pat_out' = simple_1d_interdigitated_pattern(pat_inst)
    /\ UNCHANGED <<pat_inst, pat_row, graphVars, topoVars, layoutVars>>

SortedInterdigitated ==
    /\ pat_called' = "sorted_1d_interdigitated_pattern"
    /\ pat_out' = sorted_1d_interdigitated_pattern(pat_inst)
    /\ UNCHANGED <<pat_inst, pat_row, graphVars, topoVars, layoutVars>>

BalancedInterdigitated ==
    /\ pat_called' = "balanced_1d_interdigitated_pattern"
    /\ pat_out' = balanced_1d_interdigitated_pattern(pat_inst)
    /\ UNCHANGED <<pat_inst, pat_row, graphVars, topoVars, layoutVars>>

CommonCentroid ==
    /\ pat_called' = "simple_1d_common_centroid_pattern"
    /\ pat_out' = simple_1d_common_centroid_pattern(pat_inst)
    /\ UNCHANGED <<pat_inst, pat_row, graphVars, topoVars, layoutVars>>

Clustered2D ==
    /\ pat_called' = "simple_2d_clustered_pattern"
    /\ pat_out' = simple_2d_clustered_pattern(pat_inst, pat_row)
    /\ UNCHANGED <<pat_inst, pat_row, graphVars, topoVars, layoutVars>>

NextPattern ==
    \/ SimpleClustered
    \/ SimpleInterdigitated
    \/ SortedInterdigitated
    \/ BalancedInterdigitated
    \/ CommonCentroid
    \/ Clustered2D

SpecPattern == InitPattern /\ [][NextPattern]_vars

(***************************************************************************)
(* Topology generation for one group (DevGen.topology_generation).         *)
(***************************************************************************)
Instance(finger_, multiplier, source, gate, drain, bulk, length, width) ==
    [finger |-> finger_, multiplier |-> multiplier, source |-> source, gate |-> gate,
     drain |-> drain, bulk |-> bulk, length |-> length, width |-> width]

\* the nets of the terminals source_1, drain_1, source_2, drain_2, ... of n
\* instances, named in the order in which they are first used
TerminalNets(n) ==
    {t \in [1..2 * n -> Nets] :
        \A i \in 1..2 * n :
            \/ \E j \in 1..i - 1 : t[j] = t[i]
            \/ t[i] = NetOrder[Cardinality({t[j] : j \in 1..i - 1}) + 1]}

\* a custom pattern literal
Str_Custom == <<"[", "0", "1", ",", "1", "0", "]">>

Symmetries == {Str_None, Str_ID, Str_CC, Str_Custom}

\* a group of n instances with fingers f, multipliers m and terminal nets t;
\* every finger is 4 wide and 2 long
GroupOf(n, f, m, t) ==
    [i \in 1..n |-> Instance(f[i], m[i], t[2 * i - 1], "g", t[2 * i], "sub", 2, 4 * f[i])]

\* the nets of n instances that share no net
OwnNets(n) == [j \in 1..2 * n |-> NetOrder[((j - 1) % Len(NetOrder)) + 1]]

\* a group of up to MaxInst instances with any fingers and multipliers in
\* 0..MaxParam (values below 1 are invalid), each instance on nets of its own
AnyParameters(insts) ==
    \E n \in 0..MaxInst : \E f \in [1..n -> 0..MaxParam] : \E m \in [1..n -> 0..MaxParam] :
        insts = GroupOf(n, f, m, OwnNets(n))

\* a group of one or two instances on any nets whose multipliers are all equal
\* or whose fingers are all 1 (the other groups are all turned away with
\* condition 3)
AnyNets(insts) ==
    \E n \in {1, 2} : \E t \in TerminalNets(n) :
        \/ \E f \in [1..n -> 0..MaxParam] : \E m \in 0..MaxParam :
               insts = GroupOf(n, f, [i \in 1..n |-> m], t)
        \/ \E m \in [1..n -> 0..MaxParam] :
               insts = GroupOf(n, [i \in 1..n |-> 1], m, t)

\* the constraints; generate_topology reads at most one of mf_sym and mp_sym,
\* so both carry the same setting
Constraints ==
    {[mf_sym |-> sym, mp_sym |-> sym, mp_row |-> r, tap |-> <<>>] :
        sym \in Symmetries, r \in 1..MaxRow}

InitTopo ==
    /\ NoGraph
    /\ NoPatternCall
    /\ \/ /\ AnyParameters(group_inst)
          /\ group_constraint = [mf_sym |-> Str_None, mp_sym |-> Str_None, mp_row |-> 1, tap |-> <<>>]
       \/ /\ AnyNets(group_inst)
          /\ group_constraint \in Constraints
    /\ group_topology = [assigned |-> FALSE, rows |-> <<>>]
    /\ all_finger = <<>>
    /\ all_multiplier = <<>>
    /\ topo_condition = None
    /\ topo_status = "idle"
    /\ NoLayout

\* Topo.MOSFET(tech, circuit, group): update_info(), then generate_topology()
Topo_MOSFET ==
    LET all_f == [i \in 1..Len(group_inst) |-> group_inst[i].finger]
        all_m == [i \in 1..Len(group_inst) |-> group_inst[i].multiplier]
    IN  /\ all_finger' = all_f
        /\ all_multiplier' = all_m
        /\ \E m_iter \in SetOrders(Range(all_m)) : \E f_iter \in SetOrders(Range(all_f)) :
             \E c \in {get_topology_condition(all_m, all_f, m_iter, f_iter)} :
             \E r \in {generate_topology(group_inst, group_constraint, all_f, all_m, c)} :
                 /\ topo_condition' = c
                 /\ topo_status' = r.status
                 /\ group_topology' = IF r.status = "ok"
                                      THEN [assigned |-> TRUE, rows |-> r.nodelist]
                                      ELSE group_topology
        /\ UNCHANGED <<group_inst, group_constraint, graphVars, patternVars>>

TopologyGeneration == Topo_MOSFET /\ UNCHANGED layoutVars

NextTopo == topo_status = "idle" /\ TopologyGeneration

SpecTopo == InitTopo /\ [][NextTopo]_vars

(***************************************************************************)
(* State machine 4: the core. DevGen.topology_generation builds the        *)
(* topology of a group and DevGen.layout_generation lays it out, one step  *)
(* of Layout.MOSFET at a time; the core then runs again on the same group. *)
(***************************************************************************)
\* get_design_rules: the layers of the group's type and the rule aliases
get_design_rules(tech_, type) ==
    [df  |-> IF type = "nmos" THEN "ndiffusion" ELSE "pdiffusion",
     im  |-> IF type = "nmos" THEN "nimplant" ELSE "pimplant",
     tdf |-> IF type = "nmos" THEN "pdiffusion" ELSE "ndiffusion",
     tim |-> IF type = "nmos" THEN "pimplant" ELSE "nimplant",
     po  |-> "poly", co |-> "contact", m1 |-> "metal1", nw |-> "nwell",
     co_sz |-> tech_.co_sz, ga_spc_ga |-> tech_.ga_spc_ga, po_spc_co |-> tech_.po_spc_co,
     co_spc_co |-> tech_.co_spc_co, df_enc_co |-> tech_.df_enc_co,
     df_spc_df |-> tech_.df_spc_df, po_ext_df |-> tech_.po_ext_df,
     df_ext_po |-> tech_.df_ext_po, im_enc_df |-> tech_.im_enc_df,
     im_enc_ga |-> tech_.im_enc_ga, im_wid |-> tech_.im_wid, im_area |-> tech_.im_area,
     nw_enc_pdf |-> tech_.nw_enc_pdf, nw_area |-> tech_.nw_area,
     m1_enc_co |-> tech_.m1_enc_co, m1_enc_coe |-> tech_.m1_enc_coe,
     tim_enc_tdf |-> tech_.tim_enc_tdf, tdf_enc_tco |-> tech_.tdf_enc_tco,
     tim_spc_df |-> IF tech_.tim_spc_df # None THEN tech_.tim_spc_df ELSE 0,
     im_spc_tdf |-> IF tech_.im_spc_tdf # None THEN tech_.im_spc_tdf ELSE 0,
     tim_area |-> tech_.tim_area]

\* the design rules of the Layout.MOSFET object at work
design_rules == get_design_rules(tech, group_type)

\* initialize_shape: the empty layers of a group of the type
initialize_shape(type) ==
    [layer \in {"ndiffusion", "nimplant", "poly", "contact", "metal1", "pdiffusion", "pimplant"}
               \cup (IF type = "pmos" THEN {"nwell"} ELSE {}) |-> <<>>]

\* the position the row walk visits after <<r, i>>, <<>> after the last one
RECURSIVE next_pos(_, _, _)
next_pos(rows, r, i) ==
    IF r > Len(rows) THEN <<>>
    ELSE IF i + 1 <= Len(rows[r]) THEN <<r, i + 1>>
    ELSE next_pos(rows, r + 1, 0)

\* a group of up to MaxInst instances with fingers and multipliers in
\* 1..MaxCore, on nets of their own or all on the same two nets, that asks for
\* no tap, one side, two opposite or adjacent sides or the whole ring, under a
\* technology of the two enclosures and areas
InitCore ==
    /\ NoGraph
    /\ NoPatternCall
    /\ \E n \in 1..MaxInst : \E f \in [1..n -> 1..MaxCore] : \E m \in [1..n -> 1..MaxCore] :
           \/ group_inst = GroupOf(n, f, m, OwnNets(n))
           \/ group_inst = GroupOf(n, f, m, [j \in 1..2 * n |-> NetOrder[((j - 1) % 2) + 1]])
    /\ \E tap \in {<<>>, <<"t">>, <<"r">>, <<"t", ",", "b">>, <<"b", ",", "l">>,
                    <<"t", ",", "b", ",", "r", ",", "l">>} : \E r \in 1..2 :
           group_constraint = [mf_sym |-> Str_None, mp_sym |-> Str_None, mp_row |-> r, tap |-> tap]
    /\ group_topology = [assigned |-> FALSE, rows |-> <<>>]
    /\ all_finger = <<>>
    /\ all_multiplier = <<>>
    /\ topo_condition = None
    /\ topo_status = "idle"
    /\ group_type \in {"nmos", "pmos"}
    /\ \E enc \in 0..MaxEnc : \E k \in 0..MaxArea : tech = Tech(grid * enc, 400 * k * k)
    /\ group_shape = <<>>
    /\ group_pin = <<>>
    /\ group_boundary = None
    /\ core_pc = "start"
    /\ row_pos = <<1, 1>>
    /\ runs = 0
    /\ after_first = None

\* DevGen.topology_generation: Topo.MOSFET on the group
CoreTopologyGeneration ==
    /\ core_pc \in {"start", "end"}
    /\ runs < MaxRuns
    /\ Topo_MOSFET
    /\ core_pc' = IF topo_status' = "ok" THEN "layout" ELSE topo_status'
    /\ UNCHANGED <<group_type, tech, group_shape, group_pin, group_boundary, row_pos, runs,
                   after_first>>

\* what the steps of Layout.MOSFET leave alone
NotLayout == <<graphVars, patternVars, topoVars, group_type, tech, runs>>

\* DevGen.layout_generation: Layout.MOSFET.__init__ up to the row walk of
\* generate_layout
InitializeShape ==
    /\ core_pc = "layout"
    /\ group_shape' = initialize_shape(group_type)
    /\ \E first \in {next_pos(group_topology.rows, 1, 0)} :
           IF first = <<>> THEN core_pc' = "implant" /\ UNCHANGED row_pos
           ELSE core_pc' = "rows" /\ row_pos' = first
    /\ UNCHANGED <<group_pin, group_boundary, after_first, NotLayout>>

\* the nodes of the iteration of the row walk at row_pos
curr_node == group_topology.rows[row_pos[1]][row_pos[2]]
prev_node == IF row_pos[2] > 1 THEN group_topology.rows[row_pos[1]][row_pos[2] - 1] ELSE NoNode
next_node == IF row_pos[2] < Len(group_topology.rows[row_pos[1]])
             THEN group_topology.rows[row_pos[1]][row_pos[2] + 1] ELSE NoNode

\* the end of an iteration of the row walk whose handler ended as r
RowStep(r) ==
    /\ group_shape' = r.shape
    /\ group_pin' = r.pin
    /\ IF r.status # "ok" THEN core_pc' = r.status /\ UNCHANGED row_pos
       ELSE \E pos \in {next_pos(group_topology.rows, row_pos[1], row_pos[2])} :
               IF pos = <<>> THEN core_pc' = "implant" /\ UNCHANGED row_pos
               ELSE core_pc' = "rows" /\ row_pos' = pos
    /\ UNCHANGED <<group_boundary, after_first, NotLayout>>

GenerateFirstDiffLayout ==
    /\ core_pc = "rows"
    /\ curr_node.type = "diff" /\ prev_node = NoNode
    /\ \E rules \in {design_rules} :
       \E r \in {generate_first_diff_layout(rules, group_shape, group_pin, curr_node, next_node)} :
           RowStep(r)

GenerateDiffGateLayout ==
    /\ core_pc = "rows"
    /\ prev_node # NoNode
    /\ curr_node.type = "gate" /\ prev_node.type = "diff"
    /\ \E rules \in {design_rules} :
       \E r \in {generate_diff_gate_layout(rules, group_shape, group_pin, curr_node)} :
           RowStep(r)

GenerateGateDiffLayout ==
    /\ core_pc = "rows"
    /\ prev_node # NoNode
    /\ curr_node.type = "diff" /\ prev_node.type = "gate"
    /\ \E rules \in {design_rules} :
       \E r \in {generate_gate_diff_layout(rules, group_shape, group_pin,
                                            prev_node, curr_node, next_node)} : RowStep(r)

GenerateBreakDiffLayout ==
    /\ core_pc = "rows"
    /\ prev_node # NoNode
    /\ curr_node.type = "diff" /\ prev_node.type = "diff"
    /\ \E rules \in {design_rules} :
       \E r \in {generate_break_diff_layout(rules, group_shape, group_pin, curr_node, next_node)} :
           RowStep(r)

GenerateGateGateLayout ==
    /\ core_pc = "rows"
    /\ prev_node # NoNode
    /\ curr_node.type = "gate" /\ prev_node.type = "gate"
    /\ \E rules \in {design_rules} :
       \E r \in {generate_gate_gate_layout(rules, group_shape, group_pin, curr_node)} :
           RowStep(r)

InsertImplantShape ==
    /\ core_pc = "implant"
    /\ \E rules \in {design_rules} : \E r \in {insert_implant_shape(rules, group_shape)} :
           /\ group_shape' = r.shape
           /\ core_pc' = IF r.status = "ok" THEN "body" ELSE r.status
    /\ UNCHANGED <<group_pin, group_boundary, row_pos, after_first, NotLayout>>

CreateBody ==
    /\ core_pc = "body"
    /\ \E rules \in {design_rules} :
       \E r \in {IF Len(group_inst) = 0
                  THEN [status |-> "IndexError", shape |-> group_shape, pin |-> group_pin]
                  ELSE create_body(rules, group_shape, group_pin, group_constraint.tap,
                                   group_inst[1].bulk)} :
           /\ group_shape' = r.shape
           /\ group_pin' = r.pin
           /\ core_pc' = IF r.status = "ok" THEN "nwell" ELSE r.status
    /\ UNCHANGED <<group_boundary, row_pos, after_first, NotLayout>>

InsertNwellShape ==
    /\ core_pc = "nwell"
    /\ \E rules \in {design_rules} :
       \E r \in {insert_nwell_shape(rules, group_type, group_shape)} :
           /\ group_shape' = r.shape
           /\ core_pc' = IF r.status = "ok" THEN "boundary" ELSE r.status
    /\ UNCHANGED <<group_pin, group_boundary, row_pos, after_first, NotLayout>>

\* create_boundary, the last step of a run of the core
CreateBoundary ==
    /\ core_pc = "boundary"
    /\ \E rules \in {design_rules} : \E r \in {create_boundary(rules, group_shape, group_pin)} :
           /\ group_shape' = r.shape
           /\ group_pin' = r.pin
           /\ IF r.status # "ok"
              THEN /\ core_pc' = r.status
                   /\ UNCHANGED <<group_boundary, runs, after_first>>
              ELSE /\ core_pc' = "end"
                   /\ group_boundary' = r.boundary
                   /\ runs' = runs + 1
                   /\ after_first' = IF runs = 0
                                     THEN [shape |-> r.shape, pin |-> r.pin, boundary |-> r.boundary]
                                     ELSE after_first
    /\ UNCHANGED <<row_pos, graphVars, patternVars, topoVars, group_type, tech>>

\* the row walk reads prev_node.type of a row that begins with a gate
RowWalkRaises ==
    /\ core_pc = "rows"
    /\ curr_node.type = "gate" /\ prev_node = NoNode
    /\ core_pc' = "AttributeError"
    /\ UNCHANGED <<group_shape, group_pin, group_boundary, row_pos, after_first, NotLayout>>

\* the else branch of the row walk: print("Error: Invalid Node Type"), then
\* the next position
InvalidNodeType ==
    /\ core_pc = "rows"
    /\ ~(curr_node.type = "diff" /\ prev_node = NoNode)
    /\ ~(curr_node.type = "gate" /\ prev_node = NoNode)
    /\ ~(curr_node.type = "gate" /\ prev_node.type \in {"diff", "gate"})
    /\ ~(curr_node.type = "diff" /\ prev_node.type \in {"diff", "gate"})
    /\ RowStep([status |-> "ok", shape |-> group_shape, pin |-> group_pin])

NextCore ==
    \/ CoreTopologyGeneration
    \/ InitializeShape
    \/ GenerateFirstDiffLayout
    \/ GenerateDiffGateLayout
    \/ GenerateGateDiffLayout
    \/ GenerateBreakDiffLayout
    \/ InsertImplantShape
    \/ CreateBody
    \/ InsertNwellShape
    \/ CreateBoundary

SpecCore == InitCore /\ [][NextCore]_vars

(***************************************************************************)
(* State machine 5: Layout.MOSFET on a group whose topology is any row of  *)
(* up to MaxNodes terminals of the three kinds, well formed or not, alone  *)
(* or above a well-formed row. The terminal at position i is on net        *)
(* NetOrder[i] and 2 long; the terminals are all of one width on the grid, *)
(* 4 to 2 * MaxWidth. The tap implant encloses the tap diffusion by 1 to   *)
(* MaxTapEnc grid steps.                                                   *)
(***************************************************************************)
InitLayout ==
    /\ NoGraph
    /\ NoPatternCall
    /\ group_inst = GroupOf(1, <<1>>, <<1>>, OwnNets(1))
    /\ \E tap \in {<<>>, <<"t">>, <<"t", ",", "r">>} :
           group_constraint = [mf_sym |-> Str_None, mp_sym |-> Str_None, mp_row |-> 1, tap |-> tap]
    /\ \E n \in 1..MaxNodes : \E kinds \in [1..n -> {"diff", "gate", "well"}] :
       \E w \in {2 * k : k \in 2..MaxWidth} :
       \E row \in {[i \in 1..n |->
                       MOSFET_Node(kinds[i], IF kinds[i] = "gate" THEN "g" ELSE NetOrder[i],
                                   2, w, <<1, i>>)]} :
           \/ group_topology = [assigned |-> TRUE, rows |-> <<row>>]
           \/ group_topology = [assigned |-> TRUE,
                                rows |-> <<row, <<MOSFET_Node("diff", "a", 2, w, <<2, 1>>),
                                                  MOSFET_Node("gate", "g", 2, w, <<2, 2>>),
                                                  MOSFET_Node("diff", "b", 2, w, <<2, 3>>)>>>>]
    /\ all_finger = <<1>>
    /\ all_multiplier = <<1>>
    /\ topo_condition = 0
    /\ topo_status = "ok"
    /\ group_type \in {"nmos", "pmos"}
    /\ \E k \in 1..MaxTapEnc : tech = [Tech(grid, 0) EXCEPT !.tim_enc_tdf = grid * k]
    /\ group_shape = <<>>
    /\ group_pin = <<>>
    /\ group_boundary = None
    /\ core_pc = "layout"
    /\ row_pos = <<1, 1>>
    /\ runs = 0
    /\ after_first = None

NextLayout ==
    \/ InitializeShape
    \/ GenerateFirstDiffLayout
    \/ GenerateDiffGateLayout
    \/ GenerateGateDiffLayout
    \/ GenerateBreakDiffLayout
    \/ GenerateGateGateLayout
    \/ RowWalkRaises
    \/ InvalidNodeType
    \/ InsertImplantShape
    \/ CreateBody
    \/ InsertNwellShape
    \/ CreateBoundary

SpecLayout == InitLayout /\ [][NextLayout]_vars

(***************************************************************************)
(* Properties of the Euler multigraph and of the Fleury traversal.         *)
(***************************************************************************)
\* degree of net n in the multigraph that was built
Degree(n) ==
    Cardinality({i \in 1..Len(inserted) : inserted[i].u.net = n}) +
    Cardinality({i \in 1..Len(inserted) : inserted[i].v.net = n})

OddDegreeNets == {n \in Nets : Degree(n) % 2 = 1}

Occurrences(seq, x) == Cardinality({i \in 1..Len(seq) : seq[i] = x})

\* the terminal records that occur in the interior of an inserted edge
InteriorNodes == UNION {Range(inserted[i].e) : i \in 1..Len(inserted)}

\* how many inserted edges carry x in their interior
EdgesCarrying(x) == Cardinality({i \in 1..Len(inserted) : x \in Range(inserted[i].e)})

NoHalfEdges == \A n \in Nets : graph.adj[n] = <<>>

\* C1: for a multigraph with at least one edge and at most two odd-degree
\* vertices, fleury_algorithm returns (it does not abort), its output holds
\* the interior of every inserted edge exactly once, and on return the graph
\* holds no half-edges.
C1_EveryEdgeOnce ==
    (Len(inserted) >= 1 /\ Cardinality(OddDegreeNets) <= 2) =>
        /\ pc # "raised"
        /\ pc = "returned" =>
              /\ \A x \in InteriorNodes : Occurrences(full_order, x) = EdgesCarrying(x)
              /\ NoHalfEdges

\* C2: for every multigraph with at least one edge fleury_algorithm does not
\* stop without returning, and it returns only when every half-edge list is
\* empty.
C2_FleuryReturns ==
    Len(inserted) >= 1 =>
        /\ pc # "raised"
        /\ pc = "returned" => NoHalfEdges

\* the state right after initial_node returned: dfs_order has been entered and
\* has not looked at an edge yet (the graph is the one initial_node saw)
JustStarted ==
    /\ pc = "dfs"
    /\ Len(stack) = 1
    /\ stack[1].it = 0

OddPositions == {i \in 1..Len(graph.keys) : Len(graph.adj[graph.keys[i]]) % 2 = 1}

\* the net the specification of initial_node selects
ChosenNet ==
    IF OddPositions # {}
    THEN graph.keys[CHOOSE i \in OddPositions : \A j \in OddPositions : i <= j]
    ELSE graph.keys[1]

\* C3: the terminal initial_node returns is on the first net, in table order,
\* with an odd number of half-edges, or on the first net of the table if there
\* is none; it is the endpoint on that net of the net's first half-edge; and
\* the finger-mode output begins with it.
C3_InitialNode ==
    /\ JustStarted =>
          /\ start_node.net = ChosenNet
          /\ LET first == graph.adj[ChosenNet][1]
             IN  start_node = (IF first.u.net = ChosenNet THEN first.u ELSE first.v)
          /\ finger => order = <<start_node>>
    /\ (pc = "returned" /\ finger) => full_order[1] = first_start

\* an odd-degree net that is not the first of the table was chosen
C3_Witness ==
    /\ JustStarted
    /\ finger
    /\ start_node.net # graph.keys[1]
    /\ OddPositions # {}

\* C4: is_bridge (remove_edge, then add_edge at the returned index) leaves
\* every half-edge list as it was, in content and in order.
C4_RemoveReinsert ==
    last.op = "is_bridge" => graph = last.before

\* half-edges stored under a that lead to b with interior e
HalfEdges(g, a, b, e) ==
    Cardinality({i \in 1..Len(g.adj[a]) :
                    g.adj[a][i].v.net = b /\ g.adj[a][i].e = e})

\* C5: every half-edge is stored under the net of its own near endpoint and
\* has its mirror (far endpoint's net, reversed interior) as often as itself;
\* so the half-edges from a to b are as many as those from b to a, and the
\* degrees sum to an even number.
C5_HalfEdgesPaired ==
    /\ \A a \in Nets : \A i \in 1..Len(graph.adj[a]) :
          LET h == graph.adj[a][i]
              b == h.v.net
          IN  /\ h.u.net = a
              /\ IF a = b /\ h.e = Reverse(h.e)
                 THEN HalfEdges(graph, a, a, h.e) % 2 = 0
                 ELSE HalfEdges(graph, a, b, h.e) = HalfEdges(graph, b, a, Reverse(h.e))
    /\ \A a \in Nets : \A b \in Nets :
          Cardinality({i \in 1..Len(graph.adj[a]) : graph.adj[a][i].v.net = b}) =
          Cardinality({i \in 1..Len(graph.adj[b]) : graph.adj[b][i].v.net = a})
    /\ \A a \in Nets :
          Cardinality({i \in 1..Len(graph.adj[a]) : graph.adj[a][i].v.net = a}) % 2 = 0

\* after a removal and after a bridge test, a graph that still holds an edge
\* with a non-palindromic interior
C5_Witness ==
    /\ last.op \in {"remove_edge", "is_bridge"}
    /\ \E a \in Nets : \E i \in 1..Len(graph.adj[a]) :
          graph.adj[a][i].e # Reverse(graph.adj[a][i].e)

(***************************************************************************)
(* Properties of the pattern library.                                      *)
(***************************************************************************)
Patterns1D == {"simple_1d_clustered_pattern", "simple_1d_interdigitated_pattern",
               "sorted_1d_interdigitated_pattern", "balanced_1d_interdigitated_pattern",
               "simple_1d_common_centroid_pattern"}

\* the rows of a 2D pattern one after the other
RECURSIVE Flatten(_)
Flatten(rows) == IF Len(rows) = 0 THEN <<>> ELSE rows[1] \o Flatten(Tail(rows))

CeilDiv(a, b) == (a + b - 1) \div b

\* C8: for a count vector c of positive integers every 1D pattern function
\* returns sum(c) tokens with class i exactly c[i] times, and
\* simple_2d_clustered_pattern(c, row) returns `row` rows of length
\* ceil(sum(c)/row) over the classes and 'd', class i c[i] times and 'd'
\* (row - sum(c) mod row) mod row times.
C8_PatternMultiset ==
    /\ pat_called \in Patterns1D =>
          /\ Len(pat_out) = SumSeq(pat_inst)
          /\ \A i \in 0..Len(pat_inst) - 1 : Occurrences(pat_out, i) = pat_inst[i + 1]
    /\ pat_called = "simple_2d_clustered_pattern" =>
          /\ Len(pat_out) = pat_row
          /\ \A r \in 1..Len(pat_out) : Len(pat_out[r]) = CeilDiv(SumSeq(pat_inst), pat_row)
          /\ Range(Flatten(pat_out)) \subseteq (0..Len(pat_inst) - 1) \cup {d}
          /\ \A i \in 0..Len(pat_inst) - 1 :
                 Occurrences(Flatten(pat_out), i) = pat_inst[i + 1]
          /\ Occurrences(Flatten(pat_out), d) =
                 (pat_row - (SumSeq(pat_inst) % pat_row)) % pat_row

\* a padded 2D pattern of three classes has been produced
C8_Witness ==
    /\ pat_called = "simple_2d_clustered_pattern"
    /\ Len(pat_inst) = 3
    /\ pat_row > 1
    /\ SumSeq(pat_inst) % pat_row # 0
    /\ d \in Range(Flatten(pat_out))

\* the multiset of classes of a sequence, as class -> number of occurrences
ClassBag(seq, n) == [i \in 0..n - 1 |-> Occurrences(seq, i)]

\* the first floor(len/2) tokens and the last floor(len/2) tokens carry the
\* same multiset of classes
HalvesBalanced(seq, n) ==
    LET h == Len(seq) \div 2
    IN  ClassBag(SubSeq(seq, 1, h), n) = ClassBag(SubSeq(seq, Len(seq) - h + 1, Len(seq)), n)

OddCounts(inst) == {i \in 1..Len(inst) : inst[i] % 2 # 0}

\* C9 (as stated): for every count vector of positive integers the left half
\* and the right half of the common-centroid output carry the same multiset
\* of classes.
C9_Palindromic ==
    pat_called = "simple_1d_common_centroid_pattern" =>
        HalvesBalanced(pat_out, Len(pat_inst))

\* C9 (amended): the two halves of the common-centroid output carry the same
\* multiset of classes exactly when at most one count of the vector is odd.
C9_PalindromicIffOneOdd ==
    pat_called = "simple_1d_common_centroid_pattern" =>
        (HalvesBalanced(pat_out, Len(pat_inst)) <=> Cardinality(OddCounts(pat_inst)) <= 1)

\* a common-centroid pattern of three classes, exactly one of them odd
C9_Witness ==
    /\ pat_called = "simple_1d_common_centroid_pattern"
    /\ Len(pat_inst) = 3
    /\ Cardinality(OddCounts(pat_inst)) = 1
    /\ HalvesBalanced(pat_out, Len(pat_inst))

(***************************************************************************)
(* Properties of the topology classifier.                                  *)
(***************************************************************************)
TopologyRan == topo_status # "idle"

UniformMultiplier == \A i, j \in 1..Len(group_inst) :
                         group_inst[i].multiplier = group_inst[j].multiplier
SomeFingerAbove1 == \E i \in 1..Len(group_inst) : group_inst[i].finger > 1
AllFingers1 == \A i \in 1..Len(group_inst) : group_inst[i].finger = 1
AllMultipliers1 == \A i \in 1..Len(group_inst) : group_inst[i].multiplier = 1
AllAtLeast1 == \A i \in 1..Len(group_inst) :
                   group_inst[i].finger >= 1 /\ group_inst[i].multiplier >= 1

\* the invalid topology class: a finger or multiplier below 1, or a
\* non-uniform multiplier vector with some finger above 1
InvalidClass ==
    \/ \E i \in 1..Len(group_inst) : group_inst[i].finger < 1 \/ group_inst[i].multiplier < 1
    \/ ~UniformMultiplier /\ SomeFingerAbove1

\* C6: for a group of the invalid class get_topology_condition returns 3 and
\* generate_topology ends fatally without assigning group.topology.
C6_InvalidRejected ==
    (TopologyRan /\ InvalidClass) =>
        /\ topo_condition = 3
        /\ topo_status = "SystemExit"
        /\ ~group_topology.assigned

\* C7 (as stated): for a non-empty group with all fingers and multipliers >= 1
\* the condition is 0 exactly when all multipliers are 1, 1 exactly when the
\* multipliers are one value above 1 and all fingers are 1, 2 exactly when the
\* multipliers are one value above 1 and some finger is above 1, and it is
\* always one of 0, 1, 2, 3.
C7_Classification ==
    (TopologyRan /\ Len(group_inst) > 0 /\ AllAtLeast1) =>
        /\ topo_condition \in 0..3
        /\ topo_condition = 0 <=> AllMultipliers1
        /\ topo_condition = 1 <=> (UniformMultiplier /\ ~AllMultipliers1 /\ AllFingers1)
        /\ topo_condition = 2 <=> (UniformMultiplier /\ ~AllMultipliers1 /\ SomeFingerAbove1)

\* C7 (amended): for a non-empty group with all fingers and multipliers >= 1
\* the condition is 0 exactly when all multipliers are 1, 1 exactly when some
\* multiplier is above 1 (equal or not) and all fingers are 1, 2 exactly when
\* the multipliers are one value above 1 and some finger is above 1, and 3
\* exactly when the multipliers differ and some finger is above 1.
C7_ClassificationAnyMultiplier ==
    (TopologyRan /\ Len(group_inst) > 0 /\ AllAtLeast1) =>
        /\ topo_condition \in 0..3
        /\ topo_condition = 0 <=> AllMultipliers1
        /\ topo_condition = 1 <=> (~AllMultipliers1 /\ AllFingers1)
        /\ topo_condition = 2 <=> (UniformMultiplier /\ ~AllMultipliers1 /\ SomeFingerAbove1)
        /\ topo_condition = 3 <=> (~UniformMultiplier /\ SomeFingerAbove1)

\* a valid group with differing multipliers and unit fingers was classified mp
\* and its topology was assigned
C7_Witness ==
    /\ TopologyRan
    /\ Len(group_inst) = 2
    /\ AllAtLeast1
    /\ ~UniformMultiplier
    /\ AllFingers1
    /\ topo_condition = 1
    /\ group_topology.assigned


(***************************************************************************)
(* Claims about the core run twice on one group.                           *)
(***************************************************************************)
\* C10: when the core (topology generation, then layout generation) has run
\* twice in succession on the same group, the shape, the pin list and the
\* boundary of the group are what they were when the first run ended; in
\* particular the pin list has not grown.
C10_SecondRunIdentical ==
    (core_pc = "end" /\ runs = 2) =>
        [shape |-> group_shape, pin |-> group_pin, boundary |-> group_boundary] = after_first


(***************************************************************************)
(* Claims about the finished layout of one run.                            *)
(***************************************************************************)
\* generate_layout has returned for the first time on this group
LayoutDone == core_pc = "end" /\ runs = 1

\* every rectangle of every layer of the group
EmittedRects ==
    UNION {{group_shape[l][i] : i \in 1..Len(group_shape[l])} : l \in DOMAIN group_shape}

\* the rectangle [x0, x1] x [y0, y1] has no negative coordinate and lies
\* inside the boundary of the group
InsideBoundary(x0, x1, y0, y1) ==
    /\ 0 <= x0 /\ x0 <= x1 /\ x1 <= group_boundary.x[2]
    /\ 0 <= y0 /\ y0 <= y1 /\ y1 <= group_boundary.y[2]

\* C11: after generate_layout returns for an nmos or pmos group, every
\* rectangle of every layer (diffusion, poly, contact, metal1, implant, the tap
\* layers, nwell) and every pin rectangle has all its coordinates >= 0 and
\* lies inside the boundary [(0, 0), (W, H)], for every rule deck with
\* non-negative rule values.
C11_InsideBoundary ==
    LayoutDone =>
        /\ \A r \in EmittedRects : InsideBoundary(r.x[1], r.x[2], r.y[1], r.y[2])
        /\ \A i \in 1..Len(group_pin) :
               InsideBoundary(group_pin[i].pt1[1], group_pin[i].pt2[1],
                              group_pin[i].pt1[2], group_pin[i].pt2[2])


\* the least and the greatest number of a non-empty set
SetMin(S) == CHOOSE v \in S : \A w \in S : v <= w
SetMax(S) == CHOOSE v \in S : \A w \in S : v >= w

\* the implant and tap implant rectangles, from which create_boundary takes
\* the extents
ImplantRects ==
    {r \in EmittedRects : r.layer \in {design_rules.im, design_rules.tim}}

\* C12 as stated: after create_boundary the minimum x and the minimum y over
\* all rectangles equal 0, the minimum x and the minimum y over all pin
\* rectangles equal 0, and the lower-left corner of the boundary is (0, 0).
C12_MinimaZero ==
    LayoutDone =>
        /\ SetMin({r.x[1] : r \in EmittedRects}) = 0
        /\ SetMin({r.y[1] : r \in EmittedRects}) = 0
        /\ SetMin({group_pin[i].pt1[1] : i \in 1..Len(group_pin)}) = 0
        /\ SetMin({group_pin[i].pt1[2] : i \in 1..Len(group_pin)}) = 0
        /\ group_boundary.x[1] = 0 /\ group_boundary.y[1] = 0

\* C12, amended: after create_boundary the lower-left corner of the boundary
\* is (0, 0), the minimum x and the minimum y over the implant and tap implant
\* rectangles equal the margin size_incr, and the upper-right corner of the
\* boundary is their maximum x and maximum y plus size_incr.
C12_ImplantAtMargin ==
    LayoutDone =>
        /\ group_boundary.x[1] = 0 /\ group_boundary.y[1] = 0
        /\ SetMin({r.x[1] : r \in ImplantRects}) = size_incr
        /\ SetMin({r.y[1] : r \in ImplantRects}) = size_incr
        /\ group_boundary.x[2] = SetMax({r.x[2] : r \in ImplantRects}) + size_incr
        /\ group_boundary.y[2] = SetMax({r.y[2] : r \in ImplantRects}) + size_incr

\* a run ended on a group with a tap on the left side, whose implant is the
\* leftmost rectangle the boundary is taken from
C12_Witness ==
    /\ LayoutDone
    /\ group_constraint.tap = <<"b", ",", "l">>
    /\ \E r \in ImplantRects : r.layer = design_rules.tim /\ r.x[1] = size_incr
    /\ \A r \in ImplantRects : r.layer = design_rules.im => r.x[1] > size_incr


\* C13: when every rule value, every terminal length and width and the
\* constants tap_space and size_incr are integer multiples of the grid (as
\* they all are here), every coordinate of every rectangle of the finished
\* layout, the contacts of the contact arrays and the tap shapes included, is
\* an integer multiple of the grid.
C13_OnGrid ==
    LayoutDone =>
        \A r \in EmittedRects :
            /\ r.x[1] % grid = 0 /\ r.x[2] % grid = 0
            /\ r.y[1] % grid = 0 /\ r.y[2] % grid = 0


\* the area of a rectangle
Area(r) == (r.x[2] - r.x[1]) * (r.y[2] - r.y[1])

\* C14: after generate_layout every rectangle of an implant layer (the merged
\* implant of the row and each tap implant) has an area of at least the
\* minimum area rule of its layer, and the nwell of a pmos group has an area of
\* at least nw_area, for every combination of tap sides.
C14_MinArea ==
    LayoutDone =>
        \A r \in EmittedRects :
            /\ r.layer = design_rules.im => Area(r) >= design_rules.im_area
            /\ r.layer = design_rules.tim => Area(r) >= design_rules.tim_area
            /\ r.layer = design_rules.nw => Area(r) >= design_rules.nw_area


(***************************************************************************)
(* Claims about the row walk of generate_layout.                           *)
(***************************************************************************)
\* the row walk has ended and nothing but the rectangles of the topology
\* positions has been drawn
RowsDrawn == core_pc = "implant"

\* the x-extents of two rectangles are disjoint (they may touch) or equal
ApartOrEqual(a, b) == a.x[2] <= b.x[1] \/ b.x[2] <= a.x[1] \/ a.x = b.x

\* every two rectangles of the layer have x-extents disjoint or equal
LayerApart(layer) ==
    \A i, j \in 1..Len(group_shape[layer]) :
        ApartOrEqual(group_shape[layer][i], group_shape[layer][j])

Admitted(prev, curr) ==
    \/ curr.type = "diff" /\ prev = NoNode
    \/ curr.type = "gate" /\ prev # NoNode /\ prev.type \in {"diff", "gate"}
    \/ curr.type = "diff" /\ prev # NoNode /\ prev.type \in {"diff", "gate"}

\* the row walk has gone past position i of row r: it is at a later position,
\* or generate_layout has gone on to the implant, tap, nwell and boundary
WalkedPast(r, i) ==
    \/ core_pc \in {"implant", "body", "nwell", "boundary", "end"}
    \/ core_pc = "rows" /\ (r < row_pos[1] \/ (r = row_pos[1] /\ i < row_pos[2]))

\* C16: when a row holds a position whose (prev.kind, curr.kind) is none of
\* the five admitted cases, generate_layout fails at that position: the row
\* walk never comes to a later position and generate_layout never goes on to
\* the implant, the taps, the nwell and the boundary.
C16_InvalidIsFatal ==
    \A r \in 1..Len(group_topology.rows) : \A i \in 1..Len(group_topology.rows[r]) :
        WalkedPast(r, i) =>
            Admitted(IF i > 1 THEN group_topology.rows[r][i - 1] ELSE NoNode,
                     group_topology.rows[r][i])


(***************************************************************************)
(* Claims about the steps of the traversal and about the graph operations. *)
(***************************************************************************)
\* the nets that can be reached from the nets of S over the half-edges of g
RECURSIVE Closure(_, _)
Closure(g, S) ==
    LET T == S \cup UNION {{IF g.adj[n][i].u.net = n THEN g.adj[n][i].v.net
                                                       ELSE g.adj[n][i].u.net :
                                i \in 1..Len(g.adj[n])} : n \in S}
    IN  IF T = S THEN S ELSE Closure(g, T)

\* the edge of this half-edge is a bridge of g: without it (one half-edge
\* under each endpoint taken away) the far net cannot be reached from the near
IsCutEdge(g, edge) ==
    edge.v.net \notin Closure(remove_edge(g, edge.u.net, edge.v.net, edge.e).graph, {edge.u.net})

\* the step that dfs_order is about to make takes a half-edge
TakesEdge == pc = "dfs" /\ Len(stack') > Len(stack)

\* C17: at every step of dfs_order that takes a half-edge, either the current
\* vertex has exactly one half-edge left (and that one is taken), or the one
\* taken is not a bridge and every half-edge before it in the list of the
\* vertex is a bridge: no non-bridge is skipped and no bridge is taken while a
\* non-bridge remains.
C17_FirstNonBridgeTaken ==
    [][TakesEdge =>
          LET node_ == stack[Len(stack)].node
              it    == stack[Len(stack)].it
          IN  \/ Len(graph.adj[node_]) = 1 /\ it = 0
              \/ /\ Len(graph.adj[node_]) > 1
                 /\ ~IsCutEdge(graph, graph.adj[node_][it + 1])
                 /\ \A j \in 1..it : IsCutEdge(graph, graph.adj[node_][j])]_vars


\* the position (from 1) of the first half-edge of lst that leads to net far
\* with interior e
FirstMatch(lst, far, e) ==
    CHOOSE k \in 1..Len(lst) :
        /\ lst[k].v.net = far /\ lst[k].e = e
        /\ \A j \in 1..(k - 1) : ~(lst[j].v.net = far /\ lst[j].e = e)

\* lst without its k-th half-edge
Without(lst, k) == [j \in 1..(Len(lst) - 1) |-> IF j < k THEN lst[j] ELSE lst[j + 1]]

\* C18: remove_edge(u_net, v_net, interior), called for an edge the graph
\* holds, takes away exactly one half-edge of graph[u_net] (the first that
\* leads to v_net with that interior) and exactly one of graph[v_net] (the
\* first that leads to u_net with the reversed interior), leaves every other
\* half-edge and the order of the lists as they were, and returns the index
\* of the half-edge it took from graph[u_net].
C18_RemoveEdge ==
    last.op = "remove_edge" =>
        LET u_net == last.edge.u.net
            v_net == last.edge.v.net
            e     == last.edge.e
            was   == last.before.adj
            ku    == FirstMatch(was[u_net], v_net, e)
            u_lst == Without(was[u_net], ku)
            v_was == IF u_net = v_net THEN u_lst ELSE was[v_net]
            v_lst == Without(v_was, FirstMatch(v_was, u_net, Reverse(e)))
        IN  /\ graph.adj[v_net] = v_lst
            /\ u_net # v_net => graph.adj[u_net] = u_lst
            /\ \A n \in Nets \ {u_net, v_net} : graph.adj[n] = was[n]
            /\ graph.keys = last.before.keys
            /\ last.i = ku - 1


\* the two lists hold the same half-edges the same number of times
SameHalfEdges(s, t) ==
    /\ Len(s) = Len(t)
    /\ \A x \in Range(s) \cup Range(t) :
           Cardinality({i \in 1..Len(s) : s[i] = x}) = Cardinality({i \in 1..Len(t) : t[i] = x})

RECURSIVE Joined(_)
Joined(S) ==
    LET T == S \cup {inserted[i].v.net : i \in {j \in 1..Len(inserted) : inserted[j].u.net \in S}}
               \cup {inserted[i].u.net : i \in {j \in 1..Len(inserted) : inserted[j].v.net \in S}}
    IN  IF T = S THEN S ELSE Joined(T)

\* a connected multigraph with at most two odd-degree vertices was built, each
\* edge with a single gate as its interior
EulerianOfFingers ==
    /\ Len(inserted) >= 1
    /\ \A i \in 1..Len(inserted) : Len(inserted[i].e) = 1
    /\ \A i \in 1..Len(inserted) : {inserted[i].u.net, inserted[i].v.net} \subseteq Joined({inserted[1].u.net})
    /\ Cardinality(OddDegreeNets) <= 2

\* terminal gate_ is the gate of an inserted edge between the nets of the
\* terminals before and behind
Flanked(before, gate_, behind) ==
    /\ before.type = "diff" /\ gate_.type = "gate" /\ behind.type = "diff"
    /\ \E i \in 1..Len(inserted) :
           /\ inserted[i].e = <<gate_>>
           /\ {before.net, behind.net} = {inserted[i].u.net, inserted[i].v.net}

\* C20: for a connected multigraph with at most two odd-degree vertices and E
\* edges of one gate each, the finger-mode output has 2E + 1 terminals, begins
\* with the start terminal, alternates diff, gate, diff, ... and every gate
\* stands between diffusions on the two endpoint nets of its edge; the
\* non-finger output has 3E terminals, E triples [near, gate, far] in which the
\* far net of each triple is the near net of the next.
C20_OutputShape ==
    (EulerianOfFingers /\ pc = "returned") =>
        LET E == Len(inserted)
        IN  IF finger
            THEN /\ Len(full_order) = 2 * E + 1
                 /\ full_order[1] = first_start
                 /\ \A k \in 1..E :
                        Flanked(full_order[2 * k - 1], full_order[2 * k], full_order[2 * k + 1])
            ELSE /\ Len(full_order) = 3 * E
                 /\ \A k \in 1..E :
                        /\ Flanked(full_order[3 * k - 2], full_order[3 * k - 1], full_order[3 * k])
                        /\ k < E => full_order[3 * k].net = full_order[3 * k + 1].net

\* a traversal of three fingers over three nets has returned its trail
C20_Witness ==
    /\ EulerianOfFingers
    /\ pc = "returned"
    /\ Len(inserted) = MaxEdges
    /\ Cardinality(Joined({inserted[1].u.net})) = 3
    /\ Cardinality(OddDegreeNets) = 2
    /\ ~finger
    /\ Len(full_order) = 3 * MaxEdges


(***************************************************************************)
(* Claims about the shape of the 2D clustered pattern.                     *)
(***************************************************************************)
\* the k-th token (from 0) of the classes of c in input order, class i
\* c[i + 1] times, followed by dummy tokens
FlatToken(c, k) ==
    IF k >= SumSeq(c) THEN d
    ELSE CHOOSE i \in 0..Len(c) - 1 :
             SumSeq(SubSeq(c, 1, i)) <= k /\ k < SumSeq(SubSeq(c, 1, i + 1))

\* the number of tokens of a 2D pattern
Tokens2D == Len(Flatten(pat_out))

\* C21 as stated: simple_2d_clustered_pattern(c, row) places the k-th token of
\* the flat sequence (classes in input order, then the dummies) at row
\* (k mod row), column (k div row): column-major.
C21_ColumnMajor ==
    pat_called = "simple_2d_clustered_pattern" =>
        \A k \in 0..Tokens2D - 1 :
            pat_out[(k % pat_row) + 1][(k \div pat_row) + 1] = FlatToken(pat_inst, k)

\* C21, amended: simple_2d_clustered_pattern(c, row) places the k-th token of
\* the flat sequence at row (k div col), column (k mod col), col being the
\* length of a row: row-major, the first col tokens make the first row.
C21_RowMajor ==
    pat_called = "simple_2d_clustered_pattern" =>
        \A k \in 0..Tokens2D - 1 :
            LET col == Len(pat_out[1])
            IN  pat_out[(k \div col) + 1][(k % col) + 1] = FlatToken(pat_inst, k)

\* a pattern of more than one row and more than one column whose two
\* readings differ
C21_Witness ==
    /\ pat_called = "simple_2d_clustered_pattern"
    /\ pat_row > 1
    /\ Len(pat_out[1]) > 1
    /\ pat_out[2][1] # pat_out[1][2]


(***************************************************************************)
(* Claims about the rows of the multiplier and of the hybrid topology.     *)
(***************************************************************************)
\* the constraint names one of the symmetries None, ID, CC
RecognizedSym(sym) == sym \in {Str_None, Str_ID, Str_CC}

\* a row made of [diff, gate, diff] triples, one per instance copy
TriplesRow(row) ==
    /\ Len(row) % 3 = 0
    /\ \A k \in 1..Len(row) :
           row[k].type = (IF k % 3 = 2 THEN "gate" ELSE "diff")

\* the number of triples in the rows of the topology
TriplesInRows == SumSeq([r \in 1..Len(group_topology.rows) |->
                            Len(group_topology.rows[r]) \div 3])

\* C22: for a group classified mp (condition 1) and a recognized mp_sym
\* (None, ID, CC) the topology has exactly mp_row rows, the rows together
\* hold one [diff, gate, diff] triple per multiplier copy of every instance,
\* and each row is a sequence of such triples.
C22_MultiplierRows ==
    (TopologyRan /\ topo_condition = 1 /\ AllAtLeast1
        /\ RecognizedSym(group_constraint.mp_sym)) =>
        /\ topo_status = "ok"
        /\ group_topology.assigned
        /\ Len(group_topology.rows) = group_constraint.mp_row
        /\ \A r \in 1..Len(group_topology.rows) : TriplesRow(group_topology.rows[r])
        /\ TriplesInRows = SumSeq(all_multiplier)

\* the hybrid rows are cut from the trail of the multi-finger pass
FingerTrail ==
    generate_multi_finger_topology(group_inst, group_constraint,
                                   all_finger, all_multiplier).nodelist[1]

\* row is n complete copies of trail, each forward or reversed
CopiesOfTrail(row, trail, n) ==
    /\ Len(row) = n * Len(trail)
    /\ \A j \in 0..n - 1 :
           SubSeq(row, j * Len(trail) + 1, (j + 1) * Len(trail))
               \in {trail, Reverse(trail)}

\* C23: for a hybrid group (condition 2) with uniform multiplier m and
\* mp_row >= 1 the topology has exactly mp_row rows, each row is m / mp_row
\* complete copies of the finger trail, forward or reversed, and the rows
\* together hold exactly m copies of the finger trail.
C23_HybridRows ==
    (TopologyRan /\ topo_condition = 2 /\ AllAtLeast1
        /\ RecognizedSym(group_constraint.mf_sym) /\ group_constraint.mp_row >= 1) =>
        /\ topo_status = "ok"
        /\ group_topology.assigned
        /\ Len(group_topology.rows) = group_constraint.mp_row
        /\ \A r \in 1..Len(group_topology.rows) :
               CopiesOfTrail(group_topology.rows[r], FingerTrail,
                             all_multiplier[1] \div group_constraint.mp_row)
        /\ SumSeq([r \in 1..Len(group_topology.rows) |-> Len(group_topology.rows[r])])
               = all_multiplier[1] * Len(FingerTrail)


(***************************************************************************)
(* Claims about the pins and the contacts the row walk leaves behind.      *)
(***************************************************************************)
\* the terminals of the topology in row order, then left to right
Terminals == Flatten(group_topology.rows)

\* the number of terminals of the type of the k-th one among the first k
SameTypeUpTo(k) ==
    Cardinality({j \in 1..k : Terminals[j].type = Terminals[k].type})

\* the k-th pin is the pin of the k-th terminal
PinOfTerminal(k) ==
    LET layer == IF Terminals[k].type = "diff" THEN design_rules.m1 ELSE design_rules.po
        rects == group_shape[layer]
        j     == SameTypeUpTo(k)
    IN  /\ group_pin[k].net = Terminals[k].net
        /\ group_pin[k].layer = layer
        /\ j <= Len(rects)
        /\ group_pin[k].pt1 = <<rects[j].x[1], rects[j].y[1]>>
        /\ group_pin[k].pt2 = <<rects[j].x[2], rects[j].y[2]>>

\* C24: after the row walk and before the body taps the pin list holds
\* exactly one pin per terminal of the topology, in row order then left to
\* right; a diff terminal's pin is on metal1 and a gate terminal's on poly,
\* with the terminal's net and the rectangle emitted for that position.
C24_OnePinPerTerminal ==
    RowsDrawn =>
        /\ Len(group_pin) = Len(Terminals)
        /\ \A k \in 1..Len(Terminals) : PinOfTerminal(k)



\* a step of the row walk that draws a contacted diffusion (cases 1, 3, 4)
DrawsContactedDiff ==
    /\ core_pc = "rows"
    /\ Len(group_shape'[design_rules.m1]) > Len(group_shape[design_rules.m1])

\* the diffusion and the contact stack such a step draws
DrawnDiff == Last(group_shape'[design_rules.df])
DrawnStack == SubSeq(group_shape'[design_rules.co],
                     Len(group_shape[design_rules.co]) + 1,
                     Len(group_shape'[design_rules.co]))

\* C25: every contact stack the row walk draws on a diffusion of height H
\* has N = floor((H - 2 df_enc_co - co_sz) / (co_sz + co_spc_co)) + 1 >= 1
\* contacts, consecutive contacts are co_spc_co apart, the gap below the
\* first contact equals the gap above the last one and is at least
\* df_enc_co.
C25_ContactStack ==
    [][DrawsContactedDiff =>
          LET H == DrawnDiff.y[2] - DrawnDiff.y[1]
              N == Len(DrawnStack)
              r == design_rules
          IN  /\ N = ((H - 2 * r.df_enc_co - r.co_sz) \div (r.co_sz + r.co_spc_co)) + 1
              /\ N >= 1
              /\ \A i \in 1..N - 1 :
                     DrawnStack[i + 1].y[1] - DrawnStack[i].y[2] = r.co_spc_co
              /\ DrawnStack[1].y[1] - DrawnDiff.y[1] = DrawnDiff.y[2] - DrawnStack[N].y[2]
              /\ DrawnStack[1].y[1] - DrawnDiff.y[1] >= r.df_enc_co]_vars


(***************************************************************************)
(* Claims about the body taps.                                             *)
(***************************************************************************)
\* the body taps have just been added on the first run of the core
TapsDrawn == core_pc = "nwell" /\ runs = 0

\* the taps asked for, in the order in which create_body appends them
TapsAsked ==
    SelectSeq(<<"t", "b", "r", "l">>,
              LAMBDA ch : <<ch>> \in Range(Split(group_constraint.tap, <<>>)))

\* the place of tap ch among the taps asked for
TapIndex(ch) == CHOOSE i \in 1..Len(TapsAsked) : TapsAsked[i] = ch

\* the rectangle of tap ch on the tap implant, the tap diffusion or metal1,
\* and its pin: the taps are the last rectangles of their layers
TapRect(layer, ch) ==
    group_shape[layer][Len(group_shape[layer]) - Len(TapsAsked) + TapIndex(ch)]
TapPin(ch) == group_pin[Len(group_pin) - Len(TapsAsked) + TapIndex(ch)]

\* tap h (t or b) and tap v (r or l) meet at their corner on a layer
MeetAtCorner(layer, h, v) ==
    /\ IF v = "r" THEN TapRect(layer, h).x[2] = TapRect(layer, v).x[2]
                  ELSE TapRect(layer, h).x[1] = TapRect(layer, v).x[1]
    /\ IF h = "t" THEN TapRect(layer, v).y[2] = TapRect(layer, h).y[1]
                  ELSE TapRect(layer, v).y[1] = TapRect(layer, h).y[2]

\* C26: when a horizontal tap (t or b) and a vertical tap (r or l) are both
\* asked for, the horizontal tap's implant, diffusion, metal1 and pin reach
\* to the outer x edge of the vertical tap, and the vertical tap's implant,
\* diffusion and metal1 end at the facing edge of the horizontal tap's
\* rectangle of the same layer.
C26_TapsMeet ==
    TapsDrawn =>
        \A h \in {"t", "b"} \cap Range(TapsAsked) : \A v \in {"r", "l"} \cap Range(TapsAsked) :
            /\ \A layer \in {design_rules.tim, design_rules.tdf, design_rules.m1} :
                   MeetAtCorner(layer, h, v)
            /\ IF v = "r" THEN TapPin(h).pt2[1] = TapRect(design_rules.m1, v).x[2]
                          ELSE TapPin(h).pt1[1] = TapRect(design_rules.m1, v).x[1]


(***************************************************************************)
(* Claims about the order of the gates in the multi-finger row.            *)
(***************************************************************************)
\* the ordering the pattern chose for the multi-finger row
FingerOrder == get_topology_order("mf", group_constraint, all_finger, all_multiplier).order

\* the gates of the produced row, left to right
GatesOfRow == SelectSeq(group_topology.rows[1], LAMBDA n : n.type = "gate")

\* the instances that own them: the gate made at position k of the ordering
\* belongs to instance FingerOrder[k]
GateOwners == [j \in 1..Len(GatesOfRow) |-> FingerOrder[GatesOfRow[j].id[1]]]

\* C27: for an mf group (condition 0) the instances that own the gates of
\* the produced row, read left to right, are the ordering chosen by the
\* pattern, whatever nets the sources and drains are on.
C27_GatesInPatternOrder ==
    (TopologyRan /\ topo_condition = 0 /\ group_topology.assigned
        /\ RecognizedSym(group_constraint.mf_sym)) =>
        GateOwners = FingerOrder


(***************************************************************************)
(* Claims about the rows of the layout.                                    *)
(***************************************************************************)
\* the row of the k-th terminal
RowOfTerminal(k) ==
    CHOOSE r \in 1..Len(group_topology.rows) :
        LET before == Len(Flatten(SubSeq(group_topology.rows, 1, r - 1)))
        IN  before < k /\ k <= before + Len(group_topology.rows[r])

\* the diffusion drawn for the k-th terminal, and its poly (gate) or metal1
\* (diff): one rectangle per terminal, in the order of the walk
DiffusionOf(k) == group_shape[design_rules.df][k]
WireOf(k) ==
    group_shape[IF Terminals[k].type = "diff" THEN design_rules.m1 ELSE design_rules.po]
               [SameTypeUpTo(k)]

DisjointInY(a, b) == a.y[2] <= b.y[1] \/ b.y[2] <= a.y[1]

\* C28: in a topology of two or more rows the rectangles the row walk draws
\* for different rows lie in disjoint y-ranges, layer by layer.
C28_RowsApart ==
    (RowsDrawn /\ runs = 0) =>
        \A k1, k2 \in 1..Len(Terminals) :
            RowOfTerminal(k1) # RowOfTerminal(k2) =>
                /\ DisjointInY(DiffusionOf(k1), DiffusionOf(k2))
                /\ Terminals[k1].type = Terminals[k2].type =>
                       DisjointInY(WireOf(k1), WireOf(k2))


(***************************************************************************)
(* Claims about the starts of the traversal.                               *)
(***************************************************************************)
\* C29: every time fleury_algorithm calls initial_node while edges remain in
\* the graph, at the first start and at every restart, the net it selects
\* has a half-edge left, and no start ends in an error.
C29_StartHasEdges ==
    /\ (pc = "start" /\ ~NoHalfEdges) => Len(graph.adj[ChosenNet]) >= 1
    /\ pc = "raised" => NoHalfEdges


(***************************************************************************)
(* Claims about the tokens of the ordering.                                *)
(***************************************************************************)
\* every token of the sequence is the index of an instance of the group
InstanceIndices(tokens) ==
    \A k \in 1..Len(tokens) : tokens[k] \in 0..Len(group_inst) - 1

\* the tokens the topology builder uses as indices of group.inst are all
\* indices of instances: those of the rows of the mp ordering for condition 1,
\* those of the mf ordering (which must be a flat list of tokens) otherwise
TokensAreInstances ==
    IF topo_condition = 1
    THEN LET o == get_topology_order("mp", group_constraint, all_finger, all_multiplier)
         IN  o.status = "ok" /\ InstanceIndices(Flatten(o.order))
    ELSE LET o == get_topology_order("mf", group_constraint, all_finger, all_multiplier)
         IN  o.status = "ok" /\ (~o.rows \/ Len(o.order) = 0)
                 /\ (~o.rows => InstanceIndices(o.order))

\* C30: for a group the classifier accepts (condition 0, 1 or 2) and any of
\* the settings None, ID, CC or a custom literal with any mp_row, every token
\* the topology builder uses as an index is the index of an instance of the
\* group, and topology generation ends without an error.
C30_GenerationCompletes ==
    (TopologyRan /\ topo_condition \in {0, 1, 2} /\ AllAtLeast1 /\ Len(group_inst) > 0) =>
        /\ TokensAreInstances
        /\ topo_status = "ok"

=============================================================================
